---- MODULE Spec2Model ----
(***************************************************************************)
(* kitchen-sync: the staging engine (sync.py), the environment adapters    *)
(* (adapters/local.py, docker.py, ssh.py), the tree differ (sync.py) and   *)
(* the install flow (cli.py), over a small model of a POSIX file tree.     *)
(*                                                                         *)
(* A file system is a function from absolute paths (sequences of names,    *)
(* the root <<>> being an implicit directory) to entries: a regular file   *)
(* with its content, a directory, or a symbolic link with its target       *)
(* path.  Link targets are absolute paths.  A file's content is a sequence *)
(* of characters.                                                          *)
(***************************************************************************)
EXTENDS Integers, Sequences, FiniteSets, TLC

VARIABLES
    pc,                \* position of the caller / flow
    lfs,               \* the local file system (source, staging, local target)
    rfs,               \* the file system of the remote target (container, ssh host)
    adapter,           \* "local" | "docker" | "ssh"
    sync_paths,        \* the configured syncPaths, in order (relative paths)
    resolve_symlinks,  \* the resolve flag of the staging call
    order,             \* the order in which a directory listing yields names
    staging,           \* path of the staging area returned by Stage (<<>>: none)
    hist,              \* the calls made so far, each with its result
    local_files,       \* Diff: the local snapshot
    remote_files,      \* Diff: the remote snapshot
    diffs,             \* Diff: the records returned
    todo,              \* install: the targets of the environment not yet handled
    dry_run,           \* install: the --dry-run flag
    available,         \* whether the target answers: the probe of install, the ssh host
    running,           \* docker: the ids `docker ps` lists for the image, in its order
    _container_id,     \* docker: the id the adapter instance has cached (None: none)
    lookups            \* docker: the times the instance has run `docker ps`

vars == <<pc, lfs, rfs, adapter, sync_paths, resolve_symlinks, order, staging,
          hist, local_files, remote_files, diffs, todo, dry_run, available,
          running, _container_id, lookups>>

---------------------------------------------------------------------------
(* Bounds of the model *)

\* longest list of syncPaths drawn
MaxPaths == 2
\* symbolic links followed in one path resolution before ELOOP
SymlinkFuel == 3
\* adapter calls made after staging
MaxOps == 2
\* runs of `docker ps` by one adapter instance
MaxLookups == 2

\* Python's None: what read_file returns for no content, and the empty cache of
\* the container id; it differs from every content and every id
None == <<"None">>

---------------------------------------------------------------------------
(* Entries and paths *)

File(c) == [k |-> "file", c |-> c, to |-> <<>>]
Dir == [k |-> "dir", c |-> <<>>, to |-> <<>>]
Link(t) == [k |-> "link", c |-> <<>>, to |-> t]
\* the tree that is the single entry e
T1(e) == (<<>> :> e)

Range(f) == {f[i] : i \in DOMAIN f}
NoDup(f) == \A i, j \in DOMAIN f : f[i] = f[j] => i = j

IsPrefix(p, q) == Len(p) <= Len(q) /\ SubSeq(q, 1, Len(p)) = p
Parent(p) == SubSeq(p, 1, Len(p) - 1)
Last(p) == p[Len(p)]
Drop(q, n) == SubSeq(q, n + 1, Len(q))

\* result of a path resolution that met too many links
ELoop == <<"*ELOOP*">>

Ok(fs) == [fs |-> fs, err |-> FALSE]
Err(fs) == [fs |-> fs, err |-> TRUE]

KindAt(fs, r) ==
    IF r = <<>> THEN "dir" ELSE IF r \in DOMAIN fs THEN fs[r].k ELSE "none"

\* the real path of p: every component resolved, links followed (os.path.realpath,
\* Path.resolve); a path that does not exist is returned as far as it resolves
RECURSIVE Walk(_, _, _, _)
Walk(fs, done, rest, fuel) ==
    IF rest = <<>> THEN done
    ELSE LET n == Head(rest)
             q == Append(done, n)
         IN  IF n = ".."
             THEN Walk(fs, IF done = <<>> THEN <<>> ELSE Parent(done), Tail(rest), fuel)
             ELSE IF q \notin DOMAIN fs THEN q \o Tail(rest)
             ELSE IF fs[q].k = "link"
             THEN IF fuel = 0 THEN ELoop
                  ELSE Walk(fs, <<>>, fs[q].to \o Tail(rest), fuel - 1)
             ELSE IF fs[q].k = "file" /\ Tail(rest) # <<>> THEN q \o Tail(rest)
             ELSE Walk(fs, q, Tail(rest), fuel)

\* the real path where one more link may be followed
realpath_deeper(fs, p) == Walk(fs, <<>>, p, SymlinkFuel + 1)

realpath(fs, p) == Walk(fs, <<>>, p, SymlinkFuel)

\* p with its parent resolved and its last component not followed (lstat)
lpath(fs, p) ==
    IF p = <<>> THEN <<>>
    ELSE LET par == realpath(fs, Parent(p))
         IN  IF par = ELoop THEN ELoop ELSE Append(par, Last(p))

exists(fs, p) == KindAt(fs, realpath(fs, p)) # "none"
is_dir(fs, p) == KindAt(fs, realpath(fs, p)) = "dir"
is_file(fs, p) == KindAt(fs, realpath(fs, p)) = "file"
is_symlink(fs, p) == KindAt(fs, lpath(fs, p)) = "link"
lexists(fs, p) == KindAt(fs, lpath(fs, p)) # "none"
readlink(fs, p) == fs[lpath(fs, p)].to

Under(fs, r) == {q \in DOMAIN fs : IsPrefix(r, q)}
Children(fs, r) == {q[Len(r) + 1] : q \in {x \in Under(fs, r) : Len(x) = Len(r) + 1}}

\* the tree at real path r as it is, links kept, rooted at <<>>
TreeAt(fs, r) == [q \in {Drop(x, Len(r)) : x \in Under(fs, r)} |-> fs[r \o q]]

Remove(fs, r) == [q \in DOMAIN fs \ Under(fs, r) |-> fs[q]]

\* fs with whatever is at r replaced by tree t
Graft(fs, r, t) ==
    [q \in (DOMAIN fs \ Under(fs, r)) \cup {r \o x : x \in DOMAIN t} |->
        IF IsPrefix(r, q) THEN t[Drop(q, Len(r))] ELSE fs[q]]

\* fs with tree t laid over what is at r (entries of t win, the others stay)
Overlay(fs, r, t) ==
    [q \in DOMAIN fs \cup {r \o x : x \in DOMAIN t} |->
        IF IsPrefix(r, q) /\ Drop(q, Len(r)) \in DOMAIN t
        THEN t[Drop(q, Len(r))] ELSE fs[q]]

---------------------------------------------------------------------------
(* os / shutil / pathlib operations the program calls.  Each returns the   *)
(* file system after the call and whether the call raised.                 *)

\* Path.mkdir(parents=True, exist_ok=True), os.makedirs(exist_ok=True), mkdir -p
RECURSIVE MkdirP(_, _)
\* the directory p made once its parents are there (m: the parents' result)
MkdirLeaf(m, fs, p) ==
    IF m.err THEN Err(fs) ELSE Ok(Graft(m.fs, lpath(m.fs, p), T1(Dir)))

MkdirP(fs, p) ==
    IF exists(fs, p) THEN (IF is_dir(fs, p) THEN Ok(fs) ELSE Err(fs))
    ELSE IF p = <<>> \/ lexists(fs, p) \/ lpath(fs, p) = ELoop THEN Err(fs)
    ELSE MkdirLeaf(MkdirP(fs, Parent(p)), fs, p)

\* what shutil.copytree(symlinks=False) / shutil.copy2 make of the entry at p:
\* links are followed, a dangling link is an error recorded while the rest is copied
RECURSIVE CopyImage(_, _)
CopyImage(fs, p) ==
    LET r == realpath(fs, p)
        k == KindAt(fs, r)
    IN  IF k = "file" THEN [t |-> T1(File(fs[r].c)), err |-> FALSE]
        ELSE IF k = "dir"
        THEN LET kids == Children(fs, r)
                 sub == [n \in kids |-> CopyImage(fs, Append(p, n))]
                 dom == {<<>>} \cup
                        UNION {{<<n>> \o q : q \in DOMAIN sub[n].t} : n \in kids}
             IN  [t |-> [q \in dom |-> IF q = <<>> THEN Dir
                                       ELSE sub[Head(q)].t[Tail(q)]],
                  err |-> \E n \in kids : sub[n].err]
        ELSE [t |-> <<>>, err |-> TRUE]

\* the copied image put at real path r; the call raises when the image has an error
PutImage(fs, r, img) == [fs |-> Graft(fs, r, img.t), err |-> img.err]

\* copytree once the parents of dst are made (m: their result)
CopyTreeTo(m, src, dst) ==
    IF m.err THEN m ELSE PutImage(m.fs, lpath(m.fs, dst), CopyImage(m.fs, src))

\* shutil.copytree(src, dst): dst must not exist; links in src are followed
copytree(fs, src, dst) ==
    IF ~is_dir(fs, src) THEN Err(fs)
    ELSE IF lexists(fs, dst) \/ lpath(fs, dst) = ELoop THEN Err(fs)
    ELSE CopyTreeTo(MkdirP(fs, Parent(dst)), src, dst)

\* the file at real path rs written to real path rd
WriteFile(fs, rs, rd) ==
    IF rd = ELoop \/ KindAt(fs, rd) = "dir" THEN Err(fs)
    ELSE IF KindAt(fs, Parent(rd)) # "dir" THEN Err(fs)
    ELSE IF rs = rd THEN Err(fs)
    ELSE Ok(Graft(fs, rd, T1(File(fs[rs].c))))

\* shutil.copy2(src, dst): into dst when dst is a directory; links followed on
\* both sides
copy2(fs, src, dst) ==
    IF ~is_file(fs, src) THEN Err(fs)
    ELSE WriteFile(fs, realpath(fs, src),
                   realpath(fs, IF is_dir(fs, dst) THEN Append(dst, Last(src)) ELSE dst))

\* os.symlink(to, p)
symlink(fs, to, p) ==
    IF lexists(fs, p) \/ lpath(fs, p) = ELoop THEN Err(fs)
    ELSE IF KindAt(fs, Parent(lpath(fs, p))) # "dir" THEN Err(fs)
    ELSE Ok(Graft(fs, lpath(fs, p), (<<>> :> Link(to))))

\* shutil.rmtree(p): refuses a symbolic link, a file and a missing path
rmtree(fs, p) ==
    IF is_symlink(fs, p) THEN Err(fs)
    ELSE IF p # <<>> /\ KindAt(fs, lpath(fs, p)) = "dir" THEN Ok(Remove(fs, lpath(fs, p)))
    ELSE Err(fs)

\* Path.unlink(): removes a file or a link, not a directory
unlink(fs, p) ==
    IF KindAt(fs, lpath(fs, p)) \in {"file", "link"} THEN Ok(Remove(fs, lpath(fs, p)))
    ELSE Err(fs)

\* rm -rf p: removes whatever is at p, the link itself when p is a link
rm_rf(fs, p) ==
    IF p # <<>> /\ lexists(fs, p) THEN Remove(fs, lpath(fs, p)) ELSE fs

---------------------------------------------------------------------------
(* sync.py: the staging engine *)

\* the names a listing of real directory r yields, in the order of `ord`
Listing(fs, r, ord) == SelectSeq(ord, LAMBDA n : n \in Children(fs, r))

\* what _copy_dir does with a link item under resolve_symlinks: real is its
\* resolved path; item.resolve() raises RuntimeError on a link that loops
CopyResolved(fs, real, item_dst) ==
    IF real = ELoop THEN Err(fs)
    ELSE IF KindAt(fs, real) = "dir" THEN copytree(fs, real, item_dst)
    ELSE IF KindAt(fs, real) = "file" THEN copy2(fs, real, item_dst)
    ELSE Ok(fs)

\* what prepare_staging does with a link syncPath under resolve_symlinks
CopyResolvedTop(fs, real, dst) ==
    IF KindAt(fs, real) = "dir" THEN copytree(fs, real, dst) ELSE copy2(fs, real, dst)

RECURSIVE _copy_dir(_, _, _, _, _)
RECURSIVE CopyItems(_, _, _, _, _, _)

\* _copy_dir's loop body for one item of the listing
CopyItem(fs, item, item_dst, resolve, ord) ==
    IF is_symlink(fs, item)
    THEN IF resolve THEN CopyResolved(fs, realpath(fs, item), item_dst)
         ELSE symlink(fs, readlink(fs, item), item_dst)
    ELSE IF is_dir(fs, item) THEN _copy_dir(fs, item, item_dst, resolve, ord)
    ELSE IF is_file(fs, item) THEN copy2(fs, item, item_dst)
    ELSE Ok(fs)

\* the loop goes on after an item unless the item raised (one: its result)
CopyRest(one, src, dst, resolve, ord, names) ==
    IF one.err THEN one ELSE CopyItems(one.fs, src, dst, resolve, ord, names)

\* the loop of _copy_dir over the listing `names`, stopping at the first raise
CopyItems(fs, src, dst, resolve, ord, names) ==
    IF names = <<>> THEN Ok(fs)
    ELSE CopyRest(CopyItem(fs, Append(src, Head(names)), Append(dst, Head(names)),
                           resolve, ord),
                  src, dst, resolve, ord, Tail(names))

\* _copy_dir after dst.mkdir (m: its result)
CopyDirInto(m, src, dst, resolve, ord) ==
    IF m.err THEN m
    ELSE CopyItems(m.fs, src, dst, resolve, ord, Listing(m.fs, realpath(m.fs, src), ord))

_copy_dir(fs, src, dst, resolve, ord) ==
    CopyDirInto(MkdirP(fs, dst), src, dst, resolve, ord)

\* prepare_staging's branch for a file or a link not to a directory, after
\* dst.parent.mkdir (m: its result)
StageEntry(m, src, dst, resolve) ==
    IF m.err THEN m
    ELSE IF resolve /\ is_symlink(m.fs, src)
    THEN CopyResolvedTop(m.fs, realpath(m.fs, src), dst)
    ELSE IF is_symlink(m.fs, src) /\ ~resolve
    THEN symlink(m.fs, readlink(m.fs, src), dst)
    ELSE copy2(m.fs, src, dst)

\* the loop body as it would be without `if not src.exists(): continue`
StageOne_NoSkip(fs, source_dir, stg, sp, resolve, ord) ==
    IF \/ is_file(fs, source_dir \o sp)
       \/ (is_symlink(fs, source_dir \o sp) /\ ~is_dir(fs, source_dir \o sp))
    THEN StageEntry(MkdirP(fs, Parent(stg \o sp)), source_dir \o sp, stg \o sp, resolve)
    ELSE IF is_dir(fs, source_dir \o sp)
    THEN _copy_dir(fs, source_dir \o sp, stg \o sp, resolve, ord)
    ELSE Ok(fs)

\* the body of prepare_staging's loop for one syncPath
StageOne(fs, source_dir, stg, sp, resolve, ord) ==
    IF ~exists(fs, source_dir \o sp) THEN Ok(fs)
    ELSE IF \/ is_file(fs, source_dir \o sp)
            \/ (is_symlink(fs, source_dir \o sp) /\ ~is_dir(fs, source_dir \o sp))
    THEN StageEntry(MkdirP(fs, Parent(stg \o sp)), source_dir \o sp, stg \o sp, resolve)
    ELSE IF is_dir(fs, source_dir \o sp)
    THEN _copy_dir(fs, source_dir \o sp, stg \o sp, resolve, ord)
    ELSE Ok(fs)

RECURSIVE StageAll(_, _, _, _, _, _)
\* the loop goes on after a syncPath unless it raised (one: its result)
StageRest(one, source_dir, stg, sps, resolve, ord) ==
    IF one.err THEN one ELSE StageAll(one.fs, source_dir, stg, sps, resolve, ord)

StageAll(fs, source_dir, stg, sps, resolve, ord) ==
    IF sps = <<>> THEN Ok(fs)
    ELSE StageRest(StageOne(fs, source_dir, stg, Head(sps), resolve, ord),
                   source_dir, stg, Tail(sps), resolve, ord)

\* prepare_staging(source_dir, sync_paths, resolve_symlinks), stg the fresh
\* directory tempfile.mkdtemp makes
prepare_staging(fs, source_dir, sps, resolve, stg, ord) ==
    StageAll(Graft(fs, stg, T1(Dir)), source_dir, stg, sps, resolve, ord)

---------------------------------------------------------------------------
(* adapters: deploy and clean of the three variants.  A world w is the     *)
(* pair of the local file system w.l and the remote one w.r; the local     *)
(* adapter's target lives in w.l, the docker and ssh adapters' in w.r.     *)

World(l, r) == [l |-> l, r |-> r]
Step(l, r, err, did) == [l |-> l, r |-> r, err |-> err, did |-> did]

\* `continue`: the syncPath is not in the staging area, nothing is appended
Skipped(fs) == [fs |-> fs, err |-> FALSE, did |-> FALSE]
\* deployed.append(sp) is reached when the copy x raised nothing
Appended(x) == [fs |-> x.fs, err |-> x.err, did |-> ~x.err]

\* shutil.copytree(src, dst) after the removal of dst (r1: its result)
LocalCopyTree(r1, src, dst) ==
    IF r1.err THEN r1 ELSE copytree(r1.fs, src, dst)

\* shutil.copy2(src, dst) after dst.parent.mkdir (m: its result)
LocalCopyFile(m, src, dst) ==
    IF m.err THEN m ELSE copy2(m.fs, src, dst)

\* the loop body of LocalEnvironment.deploy for one syncPath
LocalDeployOne(l, stg, target, sp) ==
    IF ~exists(l, stg \o sp) THEN Skipped(l)
    ELSE IF is_dir(l, stg \o sp)
    THEN Appended(LocalCopyTree(IF exists(l, target \o sp)
                                THEN rmtree(l, target \o sp) ELSE Ok(l),
                                stg \o sp, target \o sp))
    ELSE Appended(LocalCopyFile(MkdirP(l, Parent(target \o sp)),
                                stg \o sp, target \o sp))

\* a tar stream of tree t unpacked at real path `at`: entries of t replace files
\* and links, directories merge; a directory never replaces a non-directory nor
\* the reverse
Extract(r, at, t) ==
    IF \E x \in DOMAIN t : /\ (at \o x) \in DOMAIN r
                           /\ (t[x].k = "dir") # (r[at \o x].k = "dir")
    THEN Err(r)
    ELSE Ok(Overlay(r, at, t))

\* docker cp of the tree t (sdir: it is a directory) named `name` to real path d
\* of the container
DockerPut(r, t, sdir, name, d) ==
    IF KindAt(r, d) = "none"
    THEN IF KindAt(r, Parent(d)) = "dir" THEN Ok(Graft(r, d, t)) ELSE Err(r)
    ELSE IF KindAt(r, d) = "dir" THEN Extract(r, Append(d, name), t)
    ELSE IF sdir THEN Err(r)
    ELSE Ok(Graft(r, d, t))

\* docker cp src cid:dest, src a local path without a trailing "/.": a link in src
\* is copied as a link; dest missing: src is created as dest; dest a directory:
\* src is copied into it under its own name; dest a file: a non-directory replaces
\* it and a directory is refused
DockerCp(l, r, src, dest) ==
    DockerPut(r, TreeAt(l, lpath(l, src)), KindAt(l, lpath(l, src)) = "dir",
              Last(src), realpath(r, dest))

\* the loop body of DockerEnvironment.deploy for one syncPath
DockerDeployOne(l, r, stg, target, sp) ==
    IF ~exists(l, stg \o sp) THEN Skipped(r)
    ELSE Appended(DockerCp(l, r, stg \o sp, target \o sp))

\* rsync -avz --delete src/ host:dest/ : dest becomes a mirror of the directory
\* src, links copied as links; dest must be a directory or be creatable
RsyncMirror(l, r, src, dest) ==
    IF is_dir(r, dest) /\ realpath(r, dest) # <<>>
    THEN Ok(Graft(r, realpath(r, dest), TreeAt(l, realpath(l, src))))
    ELSE IF ~lexists(r, dest) /\ KindAt(r, Parent(lpath(r, dest))) = "dir"
    THEN Ok(Graft(r, lpath(r, dest), TreeAt(l, realpath(l, src))))
    ELSE Err(r)

\* rsync -avz src host:dest, src a file or a link (copied as a link): into dest
\* when dest is a directory, else the entry at dest is replaced
RsyncFile(l, r, src, dest) ==
    IF is_dir(r, dest)
    THEN IF /\ KindAt(r, Append(realpath(r, dest), Last(src))) = "dir"
            /\ Children(r, Append(realpath(r, dest), Last(src))) # {}
         THEN Err(r)
         ELSE Ok(Graft(r, Append(realpath(r, dest), Last(src)), T1(l[lpath(l, src)])))
    ELSE IF KindAt(r, Parent(lpath(r, dest))) = "dir"
    THEN Ok(Graft(r, lpath(r, dest), T1(l[lpath(l, src)])))
    ELSE Err(r)

\* the remote file system after self.run(["mkdir", "-p", p]); its return code is
\* not looked at
RunMkdirP(r, p) == MkdirP(r, p).fs

\* the loop body of SshEnvironment.deploy for one syncPath
SshDeployOne(l, r, stg, target, sp) ==
    IF ~exists(l, stg \o sp) THEN Skipped(r)
    ELSE IF is_dir(l, stg \o sp)
    THEN Appended(RsyncMirror(l, RunMkdirP(r, target \o sp), stg \o sp, target \o sp))
    ELSE Appended(RsyncFile(l, RunMkdirP(r, Parent(target \o sp)),
                            stg \o sp, target \o sp))

\* the world after a step x of the local adapter / of a remote adapter
LocalStep(x, w) == Step(x.fs, w.r, x.err, x.did)
RemoteStep(x, w) == Step(w.l, x.fs, x.err, x.did)

\* one syncPath deployed by adapter ad
DeployOne(ad, w, stg, target, sp) ==
    IF ad = "local" THEN LocalStep(LocalDeployOne(w.l, stg, target, sp), w)
    ELSE IF ad = "docker"
    THEN RemoteStep(DockerDeployOne(w.l, w.r, stg, target, sp), w)
    ELSE RemoteStep(SshDeployOne(w.l, w.r, stg, target, sp), w)

RECURSIVE DeployLoop(_, _, _, _, _, _)
\* the loop goes on after a syncPath unless it raised (x: its step)
DeployRest(x, ad, stg, target, sp, sps, ret) ==
    IF x.err THEN [l |-> x.l, r |-> x.r, err |-> TRUE, ret |-> ret]
    ELSE DeployLoop(ad, World(x.l, x.r), stg, target, sps,
                    IF x.did THEN Append(ret, sp) ELSE ret)

\* the loop of deploy over sync_paths: stops at the first raise; ret collects the
\* syncPaths deployed
DeployLoop(ad, w, stg, target, sps, ret) ==
    IF sps = <<>> THEN [l |-> w.l, r |-> w.r, err |-> FALSE, ret |-> ret]
    ELSE DeployRest(DeployOne(ad, w, stg, target, Head(sps)),
                    ad, stg, target, Head(sps), Tail(sps), ret)

\* LocalEnvironment.deploy after target.mkdir (m: its result)
LocalDeploy(m, w, stg, target, sps) ==
    IF m.err THEN [l |-> w.l, r |-> w.r, err |-> TRUE, ret |-> <<>>]
    ELSE DeployLoop("local", World(m.fs, w.r), stg, target, sps, <<>>)

\* Environment.deploy(staging_dir, target_dir, sync_paths)
deploy(ad, w, stg, target, sps) ==
    IF ad = "local" THEN LocalDeploy(MkdirP(w.l, target), w, stg, target, sps)
    ELSE DeployLoop(ad, World(w.l, RunMkdirP(w.r, target)), stg, target, sps, <<>>)

\* the loop body of LocalEnvironment.clean for one syncPath
LocalCleanOne(l, target, sp) ==
    IF is_dir(l, target \o sp) THEN rmtree(l, target \o sp)
    ELSE IF exists(l, target \o sp) THEN unlink(l, target \o sp)
    ELSE Ok(l)

RECURSIVE CleanLoop(_, _, _, _)
\* the loop of LocalEnvironment.clean goes on unless a removal raised (x: its
\* result)
LocalCleanRest(x, w, target, sps) ==
    IF x.err THEN [l |-> x.fs, r |-> w.r, err |-> TRUE]
    ELSE CleanLoop("local", World(x.fs, w.r), target, sps)

CleanLoop(ad, w, target, sps) ==
    IF sps = <<>> THEN [l |-> w.l, r |-> w.r, err |-> FALSE]
    ELSE IF ad = "local"
    THEN LocalCleanRest(LocalCleanOne(w.l, target, Head(sps)), w, target, Tail(sps))
    ELSE CleanLoop(ad, World(w.l, rm_rf(w.r, target \o Head(sps))), target, Tail(sps))

\* Environment.clean(target_dir, sync_paths)
clean(ad, w, target, sps) == CleanLoop(ad, w, target, sps)

---------------------------------------------------------------------------
(* sync.py: diff_trees.  A snapshot maps paths to contents; a content is a *)
(* sequence of characters; a record of the result is the sequence of its   *)
(* lines, each with the tag that opens it.                                 *)

NL == "\n"

\* str.splitlines(keepends=False): the line ends dropped
RECURSIVE LinesBare(_, _)
LinesBare(s, cur) ==
    IF s = <<>> THEN (IF cur = <<>> THEN <<>> ELSE <<cur>>)
    ELSE IF Head(s) = NL THEN <<cur>> \o LinesBare(Tail(s), <<>>)
    ELSE LinesBare(Tail(s), Append(cur, Head(s)))

\* str.splitlines(keepends=True) from the rest s of the string, cur the line begun
RECURSIVE Lines(_, _)
Lines(s, cur) ==
    IF s = <<>> THEN (IF cur = <<>> THEN <<>> ELSE <<cur>>)
    ELSE IF Head(s) = NL THEN <<Append(cur, NL)>> \o Lines(Tail(s), <<>>)
    ELSE Lines(Tail(s), Append(cur, Head(s)))

\* the lines of s without their ends, as splitlines(keepends=False) gives them
splitlines_bare(s) == LinesBare(s, <<>>)

\* content.splitlines(keepends=True)
splitlines(s) == Lines(s, <<>>)

\* the blocks a[i .. i+k-1] = b[j .. j+k-1], k > 0
Blocks(a, b) ==
    {m \in (1..Len(a)) \X (1..Len(b)) \X (1..Len(a)) :
        /\ m[1] + m[3] - 1 <= Len(a)
        /\ m[2] + m[3] - 1 <= Len(b)
        /\ SubSeq(a, m[1], m[1] + m[3] - 1) = SubSeq(b, m[2], m[2] + m[3] - 1)}

\* block m comes before block n in SequenceMatcher.find_longest_match: longer,
\* then earlier in a, then earlier in b
Better(m, n) ==
    \/ m[3] > n[3]
    \/ (m[3] = n[3] /\ m[1] < n[1])
    \/ (m[3] = n[3] /\ m[1] = n[1] /\ m[2] <= n[2])

\* SequenceMatcher.find_longest_match over the whole of a and b (no junk)
find_longest_match(a, b) ==
    CHOOSE m \in Blocks(a, b) : \A n \in Blocks(a, b) : Better(m, n)

Tagged(tag, ls) == [i \in 1..Len(ls) |-> [tag |-> tag, text |-> ls[i]]]

RECURSIVE DiffLines(_, _)
\* the lines around the longest block m: what differs before it, the block as
\* context, what differs after it
AroundBlock(m, a, b) ==
    DiffLines(SubSeq(a, 1, m[1] - 1), SubSeq(b, 1, m[2] - 1))
    \o Tagged(" ", SubSeq(a, m[1], m[1] + m[3] - 1))
    \o DiffLines(SubSeq(a, m[1] + m[3], Len(a)), SubSeq(b, m[2] + m[3], Len(b)))

\* the content lines of difflib.unified_diff(a, b), from the opcodes of
\* SequenceMatcher: equal runs as context, the lines of a gone as "-", the lines
\* of b come as "+"
DiffLines(a, b) ==
    IF Blocks(a, b) = {} THEN Tagged("-", a) \o Tagged("+", b)
    ELSE AroundBlock(find_longest_match(a, b), a, b)

\* a unified diff of the body given (nothing when no line of it differs), under
\* the two file headers and the hunk header
UnifiedText(body, fromfile, tofile, na, nb) ==
    IF \A i \in DOMAIN body : body[i].tag = " " THEN <<>>
    ELSE << [tag |-> "---", text |-> fromfile], [tag |-> "+++", text |-> tofile],
            [tag |-> "@@", text |-> <<na, nb>>] >> \o body

\* "".join(difflib.unified_diff(a, b, fromfile=..., tofile=...)) for files of at
\* most three lines, which one hunk holds whole
unified_diff(a, b, fromfile, tofile) ==
    UnifiedText(DiffLines(a, b), fromfile, tofile, Len(a), Len(b))

\* f"  + {path} (local only)" and f"  - {path} (remote only)"; a path is the
\* sequence of its names
LocalOnly(path) == << [tag |-> "  + ", text |-> Append(path, " (local only)")] >>
RemoteOnly(path) == << [tag |-> "  - ", text |-> Append(path, " (remote only)")] >>

\* dict.get(path, "")
Get(files, path) == IF path \in DOMAIN files THEN files[path] ELSE <<>>

\* the characters of the names the model draws where order matters
Spell ==
    ("a" :> <<"a">>) @@ ("b" :> <<"b">>) @@ ("c" :> <<"c">>)
    @@ ("a.txt" :> <<"a", ".", "t", "x", "t">>)
    @@ ("bin" :> <<"b", "i", "n">>) @@ ("deny" :> <<"d", "e", "n", "y">>)
    @@ ("lf" :> <<"l", "f">>) @@ ("le" :> <<"l", "e">>) @@ ("g" :> <<"g">>)
\* ord(c): the code points of those characters and of the separator
CodePoint ==
    ("." :> 46) @@ ("/" :> 47) @@ ("a" :> 97) @@ ("b" :> 98) @@ ("c" :> 99)
    @@ ("d" :> 100) @@ ("e" :> 101) @@ ("f" :> 102) @@ ("g" :> 103)
    @@ ("i" :> 105) @@ ("l" :> 108) @@ ("n" :> 110) @@ ("t" :> 116)
    @@ ("x" :> 120) @@ ("y" :> 121)

\* str(path): the names joined by "/"
RECURSIVE PathString(_)
PathString(path) ==
    IF path = <<>> THEN <<>>
    ELSE IF Len(path) = 1 THEN Spell[path[1]]
    ELSE Spell[path[1]] \o <<"/">> \o PathString(Tail(path))

\* s < t for two strings: the first differing character decides, a proper
\* prefix comes first
RECURSIVE StrLess(_, _)
StrLess(s, t) ==
    IF t = <<>> THEN FALSE
    ELSE IF s = <<>> THEN TRUE
    ELSE IF Head(s) = Head(t) THEN StrLess(Tail(s), Tail(t))
    ELSE CodePoint[Head(s)] < CodePoint[Head(t)]

\* the path of S whose string comes first
Least(S) == CHOOSE x \in S : \A y \in S \ {x} : StrLess(PathString(x), PathString(y))

\* the paths of S in ascending order of their strings
RECURSIVE Ascending(_)
Ascending(S) ==
    IF S = {} THEN <<>> ELSE <<Least(S)>> \o Ascending(S \ {Least(S)})

\* the keys as they come, unsorted
sorted_asis(keys) == keys

\* sorted(keys), keys the paths in the order the set yields them
sorted(keys) == Ascending(Range(keys))

\* the paths the model draws for snapshots
DiffPaths == << <<"a", "b">>, <<"a.txt">> >>

\* the orders in which iterating the set S can yield its elements
Enumerations(S) == {e \in [1..Cardinality(S) -> S] : Range(e) = S}

\* diffs.append(diff_text) if diff_text
AppendText(ds, text) == IF text = <<>> THEN ds ELSE Append(ds, text)

\* the loop body with neither the test for equal contents nor the test for an
\* empty diff text
DiffOne_Unguarded(ds, path, local, remote) ==
    IF path \notin DOMAIN remote THEN Append(ds, LocalOnly(path))
    ELSE IF path \notin DOMAIN local THEN Append(ds, RemoteOnly(path))
    ELSE Append(ds, unified_diff(splitlines(Get(remote, path)),
                                 splitlines(Get(local, path)),
                                 <<"remote">> \o path, <<"local">> \o path))

\* the body of diff_trees' loop for one path: diffs after it
DiffOne(ds, path, local, remote) ==
    IF Get(local, path) = Get(remote, path) THEN ds
    ELSE IF path \notin DOMAIN remote THEN Append(ds, LocalOnly(path))
    ELSE IF path \notin DOMAIN local THEN Append(ds, RemoteOnly(path))
    ELSE AppendText(ds, unified_diff(splitlines(Get(remote, path)),
                                     splitlines(Get(local, path)),
                                     <<"remote">> \o path, <<"local">> \o path))

RECURSIVE DiffLoop(_, _, _, _)
DiffLoop(ds, paths, local, remote) ==
    IF paths = <<>> THEN ds
    ELSE DiffLoop(DiffOne(ds, Head(paths), local, remote), Tail(paths), local, remote)

\* diff_trees(local_files, remote_files), keys the order in which
\* set(local_files) | set(remote_files) yields the paths
diff_trees(local, remote, keys) ==
    DiffLoop(<<>>, sorted(keys), local, remote)

---------------------------------------------------------------------------
(* The trees the model draws its inputs from *)

Absent == <<>>
\* a directory holding entry e under name n
D1(n, e) == (<<>> :> Dir) @@ (<<n>> :> e)
D2(n, e, m, f) == (<<>> :> Dir) @@ (<<n>> :> e) @@ (<<m>> :> f)

Cx == <<"x">>
Cy == <<"y">>
Cz == <<"z">>

ExtF == <<"ext", "f">>
ExtD == <<"ext", "d">>
ExtBad == <<"ext", "bad">>
ExtNone == <<"ext", "none">>

\* what lies outside the source directory, where links point: a file, a
\* directory, a directory holding a dangling link, and nothing at ext/none
ExtFS ==
    (<<"ext">> :> Dir) @@ (ExtF :> File(Cx)) @@ (ExtD :> Dir)
    @@ (<<"ext", "d", "g">> :> File(Cy)) @@ (ExtBad :> Dir)
    @@ (<<"ext", "bad", "g">> :> File(Cy)) @@ (<<"ext", "bad", "k">> :> Link(ExtNone))

SourceDir == <<"src">>
StagingDir == <<"stg">>
TargetDir == <<"tgt">>

\* what the source holds under syncPath a; the last three: a directory with a
\* link to itself, two links that point at each other, a link to itself
SourceA ==
    { Absent, T1(File(Cx)), T1(File(<<>>)),
      T1(Link(ExtF)), T1(Link(ExtD)), T1(Link(ExtNone)), T1(Link(ExtBad)),
      D1("f", File(Cx)), D1("l", Link(ExtD)), D1("l", Link(ExtF)),
      D1("l", Link(ExtNone)), D1("l", Link(ExtBad)),
      D2("f", File(Cx), "l", Link(ExtNone)),
      D2("f", File(Cx), "l", Link(ExtBad)),
      (<<>> :> Dir) @@ (<<"s">> :> Dir) @@ (<<"s", "l">> :> Link(ExtD)),
      (<<>> :> Dir) @@ (<<"s">> :> Dir) @@ (<<"s", "l">> :> Link(ExtNone)),
      D2("f", File(Cx), "l", Link(<<"src", "a">>)),
      D2("k", Link(<<"src", "a", "l">>), "l", Link(<<"src", "a", "k">>)),
      T1(Link(<<"src", "a">>)) }

\* what the source holds under syncPath b
SourceB == { Absent, T1(File(Cz)), D1("f", File(Cz)) }

SpA == <<"a">>
SpB == <<"b">>
\* the link of the directories drawn for a, a syncPath under the syncPath a
SpAL == <<"a", "l">>
SyncPathSet == {SpA, SpB, SpAL}
SyncPathLists == UNION {[1..n -> SyncPathSet] : n \in 0..MaxPaths}

\* the names a directory listing can yield, in the two orders the model draws
NamesUp == <<"a", "b", "f", "g", "k", "l", "n", "old", "s">>
NamesDown == [i \in 1..Len(NamesUp) |-> NamesUp[Len(NamesUp) + 1 - i]]

SourceFS(ta, tb) ==
    Graft(Graft(Graft(ExtFS, SourceDir, T1(Dir)), SourceDir \o SpA, ta),
          SourceDir \o SpB, tb)

---------------------------------------------------------------------------
(* The staging specification: one call of prepare_staging on a drawn       *)
(* source, then the caller's removal of the staging area.                  *)

NoSnapshot == <<>>

\* a call as hist records it: the operation, the world it started in, whether it
\* raised and what it returned
Call(op, w, err, ret) == [op |-> op, pre |-> w, err |-> err, ret |-> ret]

InitStage ==
    /\ pc = "ready"
    /\ \E ta \in SourceA, tb \in SourceB : lfs = SourceFS(ta, tb)
    /\ rfs = <<>>
    /\ adapter = "local"
    /\ sync_paths \in SyncPathLists
    /\ resolve_symlinks \in BOOLEAN
    /\ order \in {NamesUp, NamesDown}
    /\ staging = <<>>
    /\ hist = <<>>
    /\ local_files = NoSnapshot
    /\ remote_files = NoSnapshot
    /\ diffs = <<>>
    /\ todo = <<>>
    /\ dry_run = FALSE
    /\ available = TRUE
    /\ running = <<>>
    /\ _container_id = None
    /\ lookups = 0

\* staging = prepare_staging(source, sync_paths, resolve_symlinks)
Stage ==
    /\ pc = "ready"
    /\ \E r \in {prepare_staging(lfs, SourceDir, sync_paths, resolve_symlinks,
                                 StagingDir, order)} :
           /\ lfs' = r.fs
           /\ pc' = IF r.err THEN "raised" ELSE "staged"
           /\ staging' = IF r.err THEN <<>> ELSE StagingDir
           /\ hist' = Append(hist, Call("stage", World(lfs, rfs), r.err, <<>>))
    /\ UNCHANGED <<rfs, adapter, sync_paths, resolve_symlinks, order,
                   local_files, remote_files, diffs, todo, dry_run, available,
                   running, _container_id, lookups>>

\* shutil.rmtree(staging, ignore_errors=True), the caller's cleanup
Discard ==
    /\ pc = "staged"
    /\ lfs' = rmtree(lfs, staging).fs
    /\ pc' = "removed"
    /\ UNCHANGED <<rfs, adapter, sync_paths, resolve_symlinks, order, staging,
                   hist, local_files, remote_files, diffs, todo, dry_run, available,
                   running, _container_id, lookups>>

NextStage == Stage \/ Discard

SpecStage == InitStage /\ [][NextStage]_vars

---------------------------------------------------------------------------
(* The staging specification with the source directory below the root of   *)
(* the tree drawn: prepare_staging is called on the directory src/a, with  *)
(* syncPaths that name its entries and a syncPath that leads out of it.    *)

NestedSourceDir == SourceDir \o SpA

SpF == <<"f">>
SpL == <<"l">>
\* "../b": the entry b beside the source directory
SpUpB == <<"..", "b">>
NestedPathLists == UNION {[1..n -> {SpF, SpL, SpUpB}] : n \in 0..MaxPaths}

InitStageNested ==
    /\ pc = "ready"
    /\ \E ta \in SourceA, tb \in SourceB : lfs = SourceFS(ta, tb)
    /\ rfs = <<>>
    /\ adapter = "local"
    /\ sync_paths \in NestedPathLists
    /\ resolve_symlinks \in BOOLEAN
    /\ order \in {NamesUp, NamesDown}
    /\ staging = <<>>
    /\ hist = <<>>
    /\ local_files = NoSnapshot
    /\ remote_files = NoSnapshot
    /\ diffs = <<>>
    /\ todo = <<>>
    /\ dry_run = FALSE
    /\ available = TRUE
    /\ running = <<>>
    /\ _container_id = None
    /\ lookups = 0

\* staging = prepare_staging(source, sync_paths, resolve_symlinks), made by a
\* caller that has found the source directory (target.local_path.exists())
StageNested ==
    /\ pc = "ready"
    /\ exists(lfs, NestedSourceDir)
    /\ \E r \in {prepare_staging(lfs, NestedSourceDir, sync_paths, resolve_symlinks,
                                 StagingDir, order)} :
           /\ lfs' = r.fs
           /\ pc' = IF r.err THEN "raised" ELSE "staged"
           /\ staging' = IF r.err THEN <<>> ELSE StagingDir
           /\ hist' = Append(hist, Call("stage", World(lfs, rfs), r.err, <<>>))
    /\ UNCHANGED <<rfs, adapter, sync_paths, resolve_symlinks, order,
                   local_files, remote_files, diffs, todo, dry_run, available,
                   running, _container_id, lookups>>

NextStageNested == StageNested \/ Discard

SpecStageNested == InitStageNested /\ [][NextStageNested]_vars

---------------------------------------------------------------------------
(* The adapter specification: a staging area made by prepare_staging, then *)
(* up to MaxOps calls of deploy and clean on one adapter, with the same    *)
(* arguments each time, against a drawn target.                            *)

DeploySourceA ==
    { Absent, T1(File(Cx)), T1(File(Cy)), D1("f", File(Cx)), D1("l", Link(ExtD)) }
DeploySourceB == { Absent, T1(File(Cz)) }

\* what the target holds under syncPath a before the first call: nothing, a file,
\* a directory with a file of its own, a link to a directory, a dangling link, a
\* link to a file
TargetA ==
    { Absent, T1(File(Cz)), D1("old", File(Cz)),
      T1(Link(ExtD)), T1(Link(ExtNone)), T1(Link(ExtF)) }
TargetB == { Absent, T1(File(Cy)) }

\* the target directory itself missing, or holding the drawn entries
TargetTrees ==
    { Absent } \cup
    { Graft(Graft(T1(Dir), SpA, ta), SpB, tb) : ta \in TargetA, tb \in TargetB }

DeployLists == { <<SpA>>, <<SpA, SpB>>, <<SpB, SpA>> }

Adapters == {"local", "docker", "ssh"}

InitDeploy ==
    /\ pc = "ready"
    /\ adapter \in Adapters
    /\ \E ta \in DeploySourceA, tb \in DeploySourceB, tt \in TargetTrees :
          /\ lfs = IF adapter = "local"
                   THEN Graft(SourceFS(ta, tb), TargetDir, tt)
                   ELSE SourceFS(ta, tb)
          /\ rfs = IF adapter = "local" THEN <<>> ELSE Graft(ExtFS, TargetDir, tt)
    /\ sync_paths \in DeployLists
    /\ resolve_symlinks \in BOOLEAN
    /\ order = NamesUp
    /\ staging = <<>>
    /\ hist = <<>>
    /\ local_files = NoSnapshot
    /\ remote_files = NoSnapshot
    /\ diffs = <<>>
    /\ todo = <<>>
    /\ dry_run = FALSE
    /\ available = TRUE
    /\ running = <<>>
    /\ _container_id = None
    /\ lookups = 0

\* adapter.deploy(staging, target_dir, sync_paths)
Deploy ==
    /\ pc = "staged"
    /\ Len(hist) <= MaxOps
    /\ \E x \in {deploy(adapter, World(lfs, rfs), staging, TargetDir, sync_paths)} :
           /\ lfs' = x.l
           /\ rfs' = x.r
           /\ hist' = Append(hist, Call("deploy", World(lfs, rfs), x.err, x.ret))
    /\ UNCHANGED <<pc, adapter, sync_paths, resolve_symlinks, order, staging,
                   local_files, remote_files, diffs, todo, dry_run, available,
                   running, _container_id, lookups>>

\* adapter.clean(target_dir, sync_paths)
Clean ==
    /\ pc = "staged"
    /\ Len(hist) <= MaxOps
    /\ \E x \in {clean(adapter, World(lfs, rfs), TargetDir, sync_paths)} :
           /\ lfs' = x.l
           /\ rfs' = x.r
           /\ hist' = Append(hist, Call("clean", World(lfs, rfs), x.err, <<>>))
    /\ UNCHANGED <<pc, adapter, sync_paths, resolve_symlinks, order, staging,
                   local_files, remote_files, diffs, todo, dry_run, available,
                   running, _container_id, lookups>>

NextDeploy == Stage \/ Deploy \/ Clean

SpecDeploy == InitDeploy /\ [][NextDeploy]_vars

---------------------------------------------------------------------------
(* The diff specification: one call of diff_trees on two drawn snapshots.  *)

\* longest content drawn, in characters
MaxContentLen == 2
Chars == {"x", NL}
\* the content collect_files records for a file it cannot read as text
Binary == <<"<binary>">>
Contents == UNION {[1..n -> Chars] : n \in 0..MaxContentLen} \cup {Binary}
Snapshots == UNION {[S -> Contents] : S \in SUBSET Range(DiffPaths)}

InitDiff ==
    /\ pc = "ready"
    /\ lfs = <<>>
    /\ rfs = <<>>
    /\ adapter = "local"
    /\ sync_paths = <<>>
    /\ resolve_symlinks = FALSE
    /\ order = NamesUp
    /\ staging = <<>>
    /\ hist = <<>>
    /\ local_files \in Snapshots
    /\ remote_files \in Snapshots
    /\ diffs = <<>>
    /\ todo = <<>>
    /\ dry_run = FALSE
    /\ available = TRUE
    /\ running = <<>>
    /\ _container_id = None
    /\ lookups = 0

\* diffs = diff_trees(local_files, remote_files)
DiffTrees ==
    /\ pc = "ready"
    /\ \E keys \in Enumerations(DOMAIN local_files \cup DOMAIN remote_files) :
           diffs' = diff_trees(local_files, remote_files, keys)
    /\ pc' = "diffed"
    /\ UNCHANGED <<lfs, rfs, adapter, sync_paths, resolve_symlinks, order, staging,
                   hist, local_files, remote_files, todo, dry_run, available,
                   running, _container_id, lookups>>

NextDiff == DiffTrees

SpecDiff == InitDiff /\ [][NextDiff]_vars

---------------------------------------------------------------------------
(* The install specification: cli.install for one environment, its targets *)
(* handled in turn: staged, and unless nothing is staged or the run is a   *)
(* dry run, cleaned and deployed.  An error raised by a call ends the      *)
(* flow where it is raised.                                                *)

\* the directories tempfile.mkdtemp(prefix="ksync-") makes, a new name at each
\* call: made is the number of calls before this one
TempNames == <<"ksync-1", "ksync-2">>
mkdtemp(made) == << TempNames[made + 1] >>

\* the calls of prepare_staging the flow has made
StageCalls == {i \in DOMAIN hist : hist[i].op = "stage"}

\* a target of the environment as install reads it from the configuration:
\* defined is whether config.get_target finds it
Target(defined, local_path, sps, resolve) ==
    [defined |-> defined, local_path |-> local_path, sync_paths |-> sps,
     resolve_symlinks |-> resolve]

TgtA == Target(TRUE, SourceDir, <<SpA>>, TRUE)
TgtB == Target(TRUE, SourceDir, <<SpB>>, FALSE)
TgtAB == Target(TRUE, SourceDir, <<SpA, SpB>>, FALSE)
TgtGone == Target(TRUE, <<"gone">>, <<SpA>>, FALSE)
TgtUnknown == Target(FALSE, SourceDir, <<SpA>>, FALSE)

TargetLists ==
    { <<TgtA>>, <<TgtAB>>, <<TgtA, TgtB>>, <<TgtB, TgtA>>, <<TgtGone, TgtA>>,
      <<TgtUnknown, TgtB>> }

\* the sources of the install runs: those of the adapter runs and a directory
\* with a link to a directory that holds a dangling link
InstallSourceA == DeploySourceA \cup { D1("l", Link(ExtBad)) }

InitInstall ==
    /\ pc = "probe"
    /\ adapter \in Adapters
    /\ \E ta \in InstallSourceA, tb \in DeploySourceB, tt \in TargetTrees :
          /\ lfs = IF adapter = "local"
                   THEN Graft(SourceFS(ta, tb), TargetDir, tt)
                   ELSE SourceFS(ta, tb)
          /\ rfs = IF adapter = "local" THEN <<>> ELSE Graft(ExtFS, TargetDir, tt)
    /\ sync_paths = <<>>
    /\ resolve_symlinks = FALSE
    /\ order = NamesUp
    /\ staging = <<>>
    /\ hist = <<>>
    /\ local_files = NoSnapshot
    /\ remote_files = NoSnapshot
    /\ diffs = <<>>
    /\ todo \in TargetLists
    /\ dry_run \in BOOLEAN
    /\ available \in (IF adapter = "local" THEN {TRUE} ELSE BOOLEAN)
    /\ running = <<>>
    /\ _container_id = None
    /\ lookups = 0

\* if not adapter.is_available(): ... return
Probe ==
    /\ pc = "probe"
    /\ pc' = IF available THEN "loop" ELSE "done"
    /\ hist' = Append(hist, Call("probe", World(lfs, rfs), FALSE, available))
    /\ UNCHANGED <<lfs, rfs, adapter, sync_paths, resolve_symlinks, order, staging,
                   local_files, remote_files, diffs, todo, dry_run, available,
                   running, _container_id, lookups>>

\* a target the loop passes over: not in the configuration, or its source
\* directory missing
SkipTarget ==
    /\ pc = "loop"
    /\ todo # <<>>
    /\ ~Head(todo).defined \/ ~exists(lfs, Head(todo).local_path)
    /\ todo' = Tail(todo)
    /\ UNCHANGED <<pc, lfs, rfs, adapter, sync_paths, resolve_symlinks, order, staging,
                   hist, local_files, remote_files, diffs, dry_run, available,
                   running, _container_id, lookups>>

\* every syncPath of the target, staged or not
garnish_unfiltered(fs, stg, sps) == sps

\* garnish = [sp for sp in target.sync_paths if (staging / sp).exists()]
garnish(fs, stg, sps) == SelectSeq(sps, LAMBDA sp : exists(fs, stg \o sp))

\* the loop body up to the decision to deploy: prepare_staging, then with
\* nothing staged or under --dry-run the staging area is removed and the loop
\* goes on
StageTarget ==
    /\ pc = "loop"
    /\ todo # <<>>
    /\ Head(todo).defined
    /\ exists(lfs, Head(todo).local_path)
    /\ sync_paths' = Head(todo).sync_paths
    /\ resolve_symlinks' = Head(todo).resolve_symlinks
    /\ \E stg \in {mkdtemp(Cardinality(StageCalls))} :
       \E r \in {prepare_staging(lfs, Head(todo).local_path, Head(todo).sync_paths,
                                 Head(todo).resolve_symlinks, stg, order)} :
           /\ hist' = Append(hist, Call("stage", World(lfs, rfs), r.err, stg))
           /\ IF r.err
              THEN /\ pc' = "raised"
                   /\ lfs' = r.fs
                   /\ UNCHANGED <<staging, todo>>
              ELSE IF garnish(r.fs, stg, Head(todo).sync_paths) = <<>> \/ dry_run
              THEN /\ lfs' = rmtree(r.fs, stg).fs
                   /\ todo' = Tail(todo)
                   /\ UNCHANGED <<pc, staging>>
              ELSE /\ lfs' = r.fs
                   /\ staging' = stg
                   /\ pc' = "plating"
                   /\ UNCHANGED todo
    /\ UNCHANGED <<rfs, adapter, order, local_files, remote_files, diffs,
                   dry_run, available,
                   running, _container_id, lookups>>

\* adapter.clean(env_target.target_dir, target.sync_paths)
InstallClean ==
    /\ pc = "plating"
    /\ \E x \in {clean(adapter, World(lfs, rfs), TargetDir, sync_paths)} :
           /\ lfs' = x.l
           /\ rfs' = x.r
           /\ pc' = IF x.err THEN "raised" ELSE "cleaned"
           /\ hist' = Append(hist, Call("clean", World(lfs, rfs), x.err, <<>>))
    /\ UNCHANGED <<adapter, sync_paths, resolve_symlinks, order, staging,
                   local_files, remote_files, diffs, todo, dry_run, available,
                   running, _container_id, lookups>>

\* deployed = adapter.deploy(staging, env_target.target_dir, target.sync_paths),
\* then shutil.rmtree(staging, ignore_errors=True)
InstallDeploy ==
    /\ pc = "cleaned"
    /\ \E x \in {deploy(adapter, World(lfs, rfs), staging, TargetDir, sync_paths)} :
           /\ hist' = Append(hist, Call("deploy", World(lfs, rfs), x.err, x.ret))
           /\ rfs' = x.r
           /\ IF x.err
              THEN /\ pc' = "raised"
                   /\ lfs' = x.l
                   /\ UNCHANGED <<staging, todo>>
              ELSE /\ pc' = "loop"
                   /\ lfs' = rmtree(x.l, staging).fs
                   /\ staging' = <<>>
                   /\ todo' = Tail(todo)
    /\ UNCHANGED <<adapter, sync_paths, resolve_symlinks, order,
                   local_files, remote_files, diffs, dry_run, available,
                   running, _container_id, lookups>>

\* the loop is over: install returns
Served ==
    /\ pc = "loop"
    /\ todo = <<>>
    /\ pc' = "done"
    /\ UNCHANGED <<lfs, rfs, adapter, sync_paths, resolve_symlinks, order, staging,
                   hist, local_files, remote_files, diffs, todo, dry_run, available,
                   running, _container_id, lookups>>

NextInstall ==
    Probe \/ SkipTarget \/ StageTarget \/ InstallClean \/ InstallDeploy \/ Served

SpecInstall == InitInstall /\ [][NextInstall]_vars

---------------------------------------------------------------------------
(* adapters: is_available, run, read_file and list_files of the three      *)
(* variants, and the two collections of a snapshot (sync.collect_files,    *)
(* the remote collection of cli.diff).  Text is decoded as UTF-8.          *)

\* a byte that is not valid UTF-8
BadByte == "0xff"
\* a regular file the caller has no permission to read
Locked(c) == [k |-> "file", c |-> c, to |-> <<>>, mode |-> 0]
Readable(e) == "mode" \notin DOMAIN e
Undecodable(c) == \E i \in DOMAIN c : c[i] = BadByte

\* what a call gives back: it raised, or it returned ret
Returned(ret) == [raised |-> FALSE, ret |-> ret]
Raised == [raised |-> TRUE, ret |-> None]

\* Path.read_text() of the file p resolves to: PermissionError and
\* UnicodeDecodeError are the two ways it raises
read_text(fs, p) ==
    IF ~Readable(fs[realpath(fs, p)]) \/ Undecodable(fs[realpath(fs, p)].c)
    THEN Raised
    ELSE Returned(fs[realpath(fs, p)].c)

\* p.parts < q.parts, the order of Path objects: name by name, each name as a
\* string, a proper prefix first
RECURSIVE PartsLess(_, _)
PartsLess(p, q) ==
    IF q = <<>> THEN FALSE
    ELSE IF p = <<>> THEN TRUE
    ELSE IF Head(p) = Head(q) THEN PartsLess(Tail(p), Tail(q))
    ELSE StrLess(Spell[Head(p)], Spell[Head(q)])

LeastParts(S) == CHOOSE x \in S : \A y \in S \ {x} : PartsLess(x, y)

\* sorted(paths) for Path objects
RECURSIVE AscendingParts(_)
AscendingParts(S) ==
    IF S = {} THEN <<>> ELSE <<LeastParts(S)>> \o AscendingParts(S \ {LeastParts(S)})

\* base.rglob("*"): every entry below the directory base resolves to, without
\* entering a directory through a link; nothing when base is not a directory
rglob(fs, base) ==
    IF is_dir(fs, base) /\ realpath(fs, base) # ELoop
    THEN DOMAIN TreeAt(fs, realpath(fs, base)) \ {<<>>}
    ELSE {}

\* the entries of rglob that are files, a link to a file included (is_file
\* follows links), as paths relative to base
FilesBelow(fs, base) == {x \in rglob(fs, base) : is_file(fs, realpath(fs, base) \o x)}

\* LocalEnvironment.read_file(path): None when read_text raised (the ret of
\* Raised), and for a path that is not a file
LocalReadFile(fs, p) ==
    IF exists(fs, p) /\ is_file(fs, p)
    THEN Returned(read_text(fs, p).ret)
    ELSE Returned(None)

\* LocalEnvironment.list_files(path)
LocalListFiles(fs, p) ==
    IF ~exists(fs, p) THEN Returned(<<>>)
    ELSE Returned(AscendingParts(FilesBelow(fs, p)))

\* a process that ended: its return code and its standard output, decoded
Completed(rc, out) == [raised |-> FALSE, rc |-> rc, out |-> out]
\* subprocess.run raised, or the adapter did before it
RunRaised == [raised |-> TRUE, rc |-> 0 - 1, out |-> <<>>]

\* cat p with text=True: the content when p leads to a file the user can read,
\* UnicodeDecodeError when the output is not UTF-8, return code 1 otherwise
Cat(fs, p) ==
    IF is_file(fs, p) /\ Readable(fs[realpath(fs, p)])
    THEN IF Undecodable(fs[realpath(fs, p)].c) THEN RunRaised
         ELSE Completed(0, fs[realpath(fs, p)].c)
    ELSE Completed(1, <<>>)

\* find p -type f: the regular files at and below p (here: a set, each line the
\* path relative to p); a link is not a regular file and p itself is not
\* followed when it is a link; return code 1 when p is missing
Find(fs, p) ==
    IF ~lexists(fs, p) THEN Completed(1, {})
    ELSE Completed(0, {x \in DOMAIN TreeAt(fs, lpath(fs, p)) :
                           fs[lpath(fs, p) \o x].k = "file"})

\* the commands the model runs: true, false, cat path, find path -type f
Cmd(name, path) == [name |-> name, path |-> path]

\* the command run in the target's namespace, on file system fs
Exec(fs, cmd) ==
    IF cmd.name = "true" THEN Completed(0, <<>>)
    ELSE IF cmd.name = "false" THEN Completed(1, <<>>)
    ELSE IF cmd.name = "cat" THEN Cat(fs, cmd.path)
    ELSE Find(fs, cmd.path)

\* the target as an adapter instance meets it: the adapter kind, the file system
\* of the target, whether the ssh host answers, the ids docker ps lists, and the
\* cached container id
Env(ad, fs, up, ids, cached) ==
    [ad |-> ad, fs |-> fs, up |-> up, ids |-> ids, cached |-> cached]

\* the id docker ps lists first at every access, nothing kept
container_id_fresh(e) == IF e.ids # <<>> THEN e.ids[1] ELSE None

\* DockerEnvironment.container_id: docker ps is asked only while nothing is
\* cached; the first id listed is cached and returned from then on
container_id(e) ==
    IF e.cached = None
    THEN IF e.ids # <<>> THEN e.ids[1] ELSE None
    ELSE e.cached

\* Environment.is_available()
is_available(e) ==
    IF e.ad = "local" THEN TRUE
    ELSE IF e.ad = "docker" THEN container_id(e) # None
    ELSE e.up

\* no output: of find (no line), of any other command (the empty string)
NoOutput(cmd) == IF cmd.name = "find" THEN {} ELSE <<>>

\* DockerEnvironment.run: RuntimeError without a container id; docker exec on an
\* id that is not running ends with return code 1
DockerRun(e, cmd) ==
    IF container_id(e) = None THEN RunRaised
    ELSE IF container_id(e) \in Range(e.ids) THEN Exec(e.fs, cmd)
    ELSE Completed(1, NoOutput(cmd))

\* SshEnvironment.run: ssh ends with return code 255 when the host is not reached
SshRun(e, cmd) ==
    IF e.up THEN Exec(e.fs, cmd) ELSE Completed(255, NoOutput(cmd))

\* Environment.run(cmd)
run(e, cmd) ==
    IF e.ad = "local" THEN Exec(e.fs, cmd)
    ELSE IF e.ad = "docker" THEN DockerRun(e, cmd)
    ELSE SshRun(e, cmd)

\* read_file of the docker and ssh adapters after self.run(["cat", path])
\* (result: what it gave)
CatResult(result) ==
    IF result.raised THEN Raised
    ELSE IF result.rc = 0 THEN Returned(result.out)
    ELSE Returned(None)

\* list_files of the docker and ssh adapters after self.run(["find", path,
\* "-type", "f"]): the lines with the path itself dropped, sorted as strings
FindResult(result) ==
    IF result.raised THEN Raised
    ELSE IF result.rc # 0 THEN Returned(<<>>)
    ELSE Returned(Ascending(result.out \ {<<>>}))

\* Environment.read_file(path)
read_file(e, p) ==
    IF e.ad = "local" THEN LocalReadFile(e.fs, p)
    ELSE CatResult(run(e, Cmd("cat", p)))

\* Environment.list_files(path)
list_files(e, p) ==
    IF e.ad = "local" THEN LocalListFiles(e.fs, p)
    ELSE FindResult(run(e, Cmd("find", p)))

\* the content collect_files records for a file: its text, or the sentinel when
\* reading it raised (r: what read_text gave)
TextOrBinary(r) == IF r.raised THEN Binary ELSE r.ret

\* the entries collect_files adds for one syncPath: none when it is missing, the
\* file itself, or every file rglob finds below the directory
CollectOne(fs, base, sp) ==
    IF ~exists(fs, base \o sp) THEN <<>>
    ELSE IF is_file(fs, base \o sp)
    THEN (sp :> TextOrBinary(read_text(fs, base \o sp)))
    ELSE [key \in {sp \o x : x \in FilesBelow(fs, base \o sp)} |->
              TextOrBinary(read_text(fs, base \o key))]

\* collect_files(base_dir, sync_paths): a later assignment to a key replaces an
\* earlier one
RECURSIVE CollectLoop(_, _, _, _)
CollectLoop(files, fs, base, sps) ==
    IF sps = <<>> THEN files
    ELSE CollectLoop(CollectOne(fs, base, Head(sps)) @@ files, fs, base, Tail(sps))

collect_files(fs, base, sps) == CollectLoop(<<>>, fs, base, sps)

\* the remote collection so far: whether a call raised, and remote_files
Collected(raised, files) == [raised |-> raised, files |-> files]

\* the assignment made without the test `content is not None`
Record_Unchecked(acc, r, key, guard) ==
    IF acc.raised THEN acc
    ELSE IF r.raised THEN Collected(TRUE, acc.files)
    ELSE IF ~guard THEN acc
    ELSE Collected(FALSE, (key :> r.ret) @@ acc.files)

\* content = adapter.read_file(...) (r: what it gave), then the assignment
\* remote_files[key] = content under `content is not None` and the guard
Record(acc, r, key, guard) ==
    IF acc.raised THEN acc
    ELSE IF r.raised THEN Collected(TRUE, acc.files)
    ELSE IF r.ret = None \/ ~guard THEN acc
    ELSE Collected(FALSE, (key :> r.ret) @@ acc.files)

\* for rel in files_in_path: read and record target/sp/rel under sp/rel
RECURSIVE RecordListed(_, _, _, _, _)
RecordListed(acc, e, target, sp, rels) ==
    IF rels = <<>> \/ acc.raised THEN acc
    ELSE RecordListed(Record(acc, read_file(e, target \o sp \o Head(rels)),
                             sp \o Head(rels), TRUE),
                      e, target, sp, Tail(rels))

\* "also try reading as a single file": target/sp recorded under sp unless a key
\* sp is there already (acc: the collection after the listed files)
RecordSingle(acc, e, target, sp) ==
    IF acc.raised THEN acc
    ELSE Record(acc, read_file(e, target \o sp), sp, sp \notin DOMAIN acc.files)

\* one syncPath of the remote collection after adapter.list_files(remote_path)
\* (listing: what it gave)
CollectRemoteOne(acc, listing, e, target, sp) ==
    IF listing.raised THEN Collected(TRUE, acc.files)
    ELSE RecordSingle(RecordListed(acc, e, target, sp, listing.ret), e, target, sp)

\* the loop of cli.diff over target.sync_paths that fills remote_files
RECURSIVE CollectRemoteLoop(_, _, _, _)
CollectRemoteLoop(acc, e, target, sps) ==
    IF sps = <<>> \/ acc.raised THEN acc
    ELSE CollectRemoteLoop(
             CollectRemoteOne(acc, list_files(e, target \o Head(sps)), e, target,
                              Head(sps)),
             e, target, Tail(sps))

collect_remote(e, target, sps) ==
    CollectRemoteLoop(Collected(FALSE, <<>>), e, target, sps)

---------------------------------------------------------------------------
(* The read specification: one adapter instance and its target; the        *)
(* container of the docker adapter starts and stops, the host of the ssh   *)
(* adapter comes and goes, and between these events the instance is asked  *)
(* is_available, run, read_file, list_files and the two collections.  hist *)
(* holds the last call only, with the state of the target at that time.    *)

\* the ids of the containers of the image
Ids == { <<"c1">>, <<"c2">> }

\* the tree below a base the reads are made on: text files (one of them
\* empty), a file that is not UTF-8, a file without read permission, links to a
\* file, to a directory and to nothing
ReadTree ==
    (<<>> :> Dir) @@ (<<"a.txt">> :> File(Cx)) @@ (<<"a">> :> Dir)
    @@ (<<"a", "b">> :> File(Cy)) @@ (<<"a", "c">> :> File(<<>>))
    @@ (<<"a", "bin">> :> File(<<BadByte>>)) @@ (<<"a", "deny">> :> Locked(Cz))
    @@ (<<"a", "lf">> :> Link(ExtF)) @@ (<<"a", "le">> :> Link(ExtD))
    @@ (<<"a", "dang">> :> Link(ExtNone)) @@ (<<"bin">> :> File(<<"x", BadByte>>))

\* a tree of text files only
TextTree ==
    (<<>> :> Dir) @@ (<<"a.txt">> :> File(Cx)) @@ (<<"a">> :> Dir)
    @@ (<<"a", "b">> :> File(Cy))

ReadTrees == { Absent, ReadTree, TextTree }

\* the paths the calls are made on, relative to the target directory
ReadPaths ==
    { <<>>, <<"a.txt">>, <<"a">>, <<"a", "c">>, <<"a", "bin">>, <<"a", "deny">>,
      <<"a", "lf">>, <<"a", "le">>, <<"a", "dang">>, <<"none">> }

CollectLists ==
    { << <<"a">> >>, << <<"a.txt">>, <<"bin">> >>,
      << <<"none">>, <<"a">>, <<"a", "b">> >> }

\* the trees with the lists of syncPaths collected on them
ReadInputs ==
    (ReadTrees \X {<< <<"a.txt">>, <<"bin">> >>}) \cup ({ReadTree} \X CollectLists)

Commands == { Cmd("true", <<>>), Cmd("false", <<>>) }

\* the target as the adapter instance meets it now
Now == Env(adapter, IF adapter = "local" THEN lfs ELSE rfs, available, running,
           _container_id)

\* a call as hist records it here: with its argument, and with the ids running
\* and the answer of the host when it was made
ACall(op, arg, err, ret) ==
    [op |-> op, arg |-> arg, pre |-> World(lfs, rfs), ids |-> running,
     up |-> available, err |-> err, ret |-> ret]

\* what a call of the instance leaves in the cache of the container id
Cached == IF adapter = "docker" THEN container_id(Now) ELSE _container_id

\* a call of the instance runs `docker ps`: the docker adapter with nothing
\* cached (container_id, `if self._container_id is None`)
Looks == adapter = "docker" /\ _container_id = None
\* the call stays within the runs of `docker ps` the model counts
Within == Looks => lookups < MaxLookups

InitRead ==
    /\ pc = "ready"
    /\ adapter \in Adapters
    /\ \E drawn \in ReadInputs :
          /\ lfs = IF adapter = "local"
                   THEN Graft(Graft(ExtFS, SourceDir, drawn[1]), TargetDir, drawn[1])
                   ELSE Graft(ExtFS, SourceDir, drawn[1])
          /\ rfs = IF adapter = "local" THEN <<>>
                   ELSE Graft(ExtFS, TargetDir, drawn[1])
          /\ sync_paths = drawn[2]
    /\ resolve_symlinks = FALSE
    /\ order = NamesUp
    /\ staging = <<>>
    /\ hist = <<>>
    /\ local_files = NoSnapshot
    /\ remote_files = NoSnapshot
    /\ diffs = <<>>
    /\ todo = <<>>
    /\ dry_run = FALSE
    /\ available \in (IF adapter = "ssh" THEN BOOLEAN ELSE {TRUE})
    /\ running = <<>>
    /\ _container_id = None
    /\ lookups = 0

\* a container of the image starts: docker ps lists it first
ContainerStart ==
    /\ adapter = "docker"
    /\ \E id \in Ids \ Range(running) : running' = <<id>> \o running
    /\ UNCHANGED <<pc, lfs, rfs, adapter, sync_paths, resolve_symlinks, order,
                   staging, hist, local_files, remote_files, diffs, todo, dry_run,
                   available, _container_id, lookups>>

\* a running container stops
ContainerStop ==
    /\ adapter = "docker"
    /\ \E id \in Range(running) : running' = SelectSeq(running, LAMBDA x : x # id)
    /\ UNCHANGED <<pc, lfs, rfs, adapter, sync_paths, resolve_symlinks, order,
                   staging, hist, local_files, remote_files, diffs, todo, dry_run,
                   available, _container_id, lookups>>

\* the ssh host stops answering, or answers again
HostChange ==
    /\ adapter = "ssh"
    /\ available' = ~available
    /\ UNCHANGED <<pc, lfs, rfs, adapter, sync_paths, resolve_symlinks, order,
                   staging, hist, local_files, remote_files, diffs, todo, dry_run,
                   running, _container_id, lookups>>

\* adapter = create_adapter(adapter_conf): a new instance takes the place of
\* the old one, with nothing cached and no call made
CreateAdapter ==
    /\ hist # <<>>
    /\ hist' = <<>>
    /\ _container_id' = None
    /\ lookups' = 0
    /\ UNCHANGED <<pc, lfs, rfs, adapter, sync_paths, resolve_symlinks, order,
                   staging, local_files, remote_files, diffs, todo, dry_run,
                   available, running>>

\* adapter.is_available()
IsAvailable ==
    /\ hist' = << ACall("is_available", <<>>, FALSE, is_available(Now)) >>
    /\ Within
    /\ _container_id' = Cached
    /\ lookups' = IF Looks THEN lookups + 1 ELSE lookups
    /\ UNCHANGED <<pc, lfs, rfs, adapter, sync_paths, resolve_symlinks, order,
                   staging, local_files, remote_files, diffs, todo, dry_run,
                   available, running>>

\* adapter.run(cmd)
RunCommand ==
    /\ \E cmd \in Commands :
       \E r \in {run(Now, cmd)} :
           hist' = << ACall("run", cmd, r.raised, r.rc) >>
    /\ Within
    /\ _container_id' = Cached
    /\ lookups' = IF Looks THEN lookups + 1 ELSE lookups
    /\ UNCHANGED <<pc, lfs, rfs, adapter, sync_paths, resolve_symlinks, order,
                   staging, local_files, remote_files, diffs, todo, dry_run,
                   available, running>>

\* adapter.read_file(path)
ReadFile ==
    /\ \E p \in ReadPaths :
       \E r \in {read_file(Now, TargetDir \o p)} :
           hist' = << ACall("read_file", TargetDir \o p, r.raised, r.ret) >>
    /\ Within
    /\ _container_id' = Cached
    /\ lookups' = IF Looks THEN lookups + 1 ELSE lookups
    /\ UNCHANGED <<pc, lfs, rfs, adapter, sync_paths, resolve_symlinks, order,
                   staging, local_files, remote_files, diffs, todo, dry_run,
                   available, running>>

\* adapter.list_files(path)
ListFiles ==
    /\ \E p \in ReadPaths :
       \E r \in {list_files(Now, TargetDir \o p)} :
           hist' = << ACall("list_files", TargetDir \o p, r.raised,
                            IF r.raised THEN <<>> ELSE r.ret) >>
    /\ Within
    /\ _container_id' = Cached
    /\ lookups' = IF Looks THEN lookups + 1 ELSE lookups
    /\ UNCHANGED <<pc, lfs, rfs, adapter, sync_paths, resolve_symlinks, order,
                   staging, local_files, remote_files, diffs, todo, dry_run,
                   available, running>>

\* local_files = collect_files(target.local_path, target.sync_paths)
Collect ==
    /\ local_files' = collect_files(lfs, SourceDir, sync_paths)
    /\ hist' = << ACall("collect_files", SourceDir, FALSE, <<>>) >>
    /\ UNCHANGED <<pc, lfs, rfs, adapter, sync_paths, resolve_symlinks, order,
                   staging, remote_files, diffs, todo, dry_run, available,
                   running, _container_id, lookups>>

\* the remote collection of cli.diff on the target directory; remote_files is
\* lost when a call raises
CollectRemote ==
    /\ \E r \in {collect_remote(Now, TargetDir, sync_paths)} :
           /\ remote_files' = IF r.raised THEN NoSnapshot ELSE r.files
           /\ hist' = << ACall("collect_remote", TargetDir, r.raised, <<>>) >>
    /\ Within
    /\ _container_id' = Cached
    /\ lookups' = IF Looks THEN lookups + 1 ELSE lookups
    /\ UNCHANGED <<pc, lfs, rfs, adapter, sync_paths, resolve_symlinks, order,
                   staging, local_files, diffs, todo, dry_run, available, running>>

NextRead ==
    \/ ContainerStart \/ ContainerStop \/ HostChange \/ CreateAdapter
    \/ IsAvailable \/ RunCommand \/ ReadFile \/ ListFiles
    \/ Collect \/ CollectRemote

SpecRead == InitRead /\ [][NextRead]_vars

---------------------------------------------------------------------------
(* Claims about staging, checked under SpecStage *)

\* the local file system as it was when the last call started
Before == hist[Len(hist)].pre.l
StageReturned == pc = "staged"

\* the source's entries at or below the listed syncPaths (paths through real
\* directories only)
ListedSource(fs) ==
    {q \in Under(fs, SourceDir) : \E sp \in Range(sync_paths) : IsPrefix(SourceDir \o sp, q)}
\* the place in the staging area of source entry q
StagedAt(q) == StagingDir \o Drop(q, Len(SourceDir))

\* the listed syncPaths the source holds, as Path.exists() has it (a link is
\* followed: a dangling link does not exist)
Present == SelectSeq(sync_paths, LAMBDA sp : exists(Before, SourceDir \o sp))
\* the call of Stage has ended, by returning or by raising
StageDone == pc \in {"staged", "raised"}

C6_AllOrNothing ==
    StageReturned =>
        IF resolve_symlinks
        THEN /\ \A q \in Under(lfs, StagingDir) : lfs[q].k # "link"
             /\ \A q \in ListedSource(Before) :
                   (Before[q].k = "link" /\ exists(Before, q)) =>
                       TreeAt(lfs, StagedAt(q)) = CopyImage(Before, q).t
        ELSE \A q \in ListedSource(Before) :
                   Before[q].k = "link" =>
                       /\ StagedAt(q) \in DOMAIN lfs
                       /\ lfs[StagedAt(q)].k = "link"

\* C7: without resolve_symlinks a link that does not point to a directory, as a
\* syncPath or inside a staged directory, dangling or not, is a link with the
\* same target in the staging area.
C7_LinkRecreated ==
    (StageReturned /\ ~resolve_symlinks) =>
        \A q \in ListedSource(Before) :
            (Before[q].k = "link" /\ ~is_dir(Before, q)) =>
                /\ StagedAt(q) \in DOMAIN lfs
                /\ lfs[StagedAt(q)] = Link(Before[q].to)

\* C8: with resolve_symlinks a broken link never makes Stage raise, wherever it
\* is met (the lists drawn without a repeated syncPath, nothing but a broken
\* link is irregular in the sources drawn).
C8_BrokenLinksSkipped ==
    (resolve_symlinks /\ NoDup(sync_paths)) => pc # "raised"

---------------------------------------------------------------------------
(* Claims about the adapters, checked under SpecDeploy *)

\* the world after call i of hist
After(i) == IF i = Len(hist) THEN World(lfs, rfs) ELSE hist[i + 1].pre
\* the file system the adapter's target lives in
TargetFS(w) == IF adapter = "local" THEN w.l ELSE w.r
LastCall == hist[Len(hist)]

\* C1: Deploy called twice in a row with the same arguments: the second call
\* raises nothing and leaves the world as the first left it.
C1_DeployIdempotent ==
    \A i \in 1..(Len(hist) - 1) :
        (hist[i].op = "deploy" /\ hist[i + 1].op = "deploy" /\ ~hist[i].err) =>
            /\ ~hist[i + 1].err
            /\ After(i + 1) = After(i)

\* C2: after a Deploy that returned, the tree at target/syncPath is the staged
\* tree, for every listed syncPath present in the staging area, whatever was
\* there before.
C2_DeployReplaces ==
    (Len(hist) > 1 /\ LastCall.op = "deploy" /\ ~LastCall.err) =>
        \A sp \in Range(sync_paths) :
            exists(lfs, staging \o sp) =>
                TreeAt(TargetFS(World(lfs, rfs)), TargetDir \o sp)
                    = TreeAt(lfs, staging \o sp)

\* C3: Clean raises nothing, and after it no entry of any kind is left at
\* target/syncPath for any listed syncPath.
C3_CleanRemoves ==
    (Len(hist) > 1 /\ LastCall.op = "clean") =>
        /\ ~LastCall.err
        /\ \A sp \in Range(sync_paths) :
              ~lexists(TargetFS(World(lfs, rfs)), TargetDir \o sp)

\* the syncPaths of sps present in the staging area, in the order of sps
InStaging(sps) == SelectSeq(sps, LAMBDA sp : exists(LastCall.pre.l, staging \o sp))

\* every file and directory of the staged tree of sp is found, as staged, below
\* target/sp (a staged link may arrive as a link or as what it points to)
Transferred(sp) ==
    \A x \in DOMAIN TreeAt(lfs, staging \o sp) :
        lfs[staging \o sp \o x].k # "link" =>
            /\ (TargetDir \o sp \o x) \in DOMAIN TargetFS(World(lfs, rfs))
            /\ TargetFS(World(lfs, rfs))[TargetDir \o sp \o x] = lfs[staging \o sp \o x]

\* C13: a Deploy that returned has returned the listed syncPaths present in the
\* staging area, in input order; the target directory is then a directory, and
\* every returned syncPath is at target/syncPath as it was staged.
C13_DeployReturnsTransferred ==
    (Len(hist) > 1 /\ LastCall.op = "deploy" /\ ~LastCall.err) =>
        /\ LastCall.ret = InStaging(sync_paths)
        /\ is_dir(TargetFS(World(lfs, rfs)), TargetDir)
        /\ \A sp \in Range(LastCall.ret) : Transferred(sp)

---------------------------------------------------------------------------
(* The claim about the install flow, checked under SpecInstall *)

FlowEnded == pc \in {"done", "raised"}

\* C4: when the install flow has ended, by returning or by an error raised in
\* Clean or Deploy, every staging area a Stage call of the flow returned has been
\* removed.
C4_StagingRemoved ==
    FlowEnded =>
        \A i \in DOMAIN hist :
            (hist[i].op = "stage" /\ ~hist[i].err) => ~lexists(lfs, hist[i].ret)

\* the flow has ended in a Deploy that raised
DeployFailed == pc = "raised" /\ LastCall.op = "deploy"

\* the position in sync_paths of the syncPath whose transfer raised: the first
\* one staged and not returned
FailedAt ==
    CHOOSE i \in DOMAIN sync_paths :
        /\ exists(LastCall.pre.l, staging \o sync_paths[i])
        /\ sync_paths[i] \notin Range(LastCall.ret)
        /\ \A j \in 1..(i - 1) : ~exists(LastCall.pre.l, staging \o sync_paths[j])
                                 \/ sync_paths[j] \in Range(LastCall.ret)

\* C17: when a transfer of Deploy raises for one target, the syncPaths after it
\* in that target are left as they were, and the flow does not end before every
\* other target of the run has been handled.
C17_FailureKeepsOtherTargets ==
    DeployFailed =>
        /\ \A j \in DOMAIN sync_paths :
              j > FailedAt =>
                  TreeAt(TargetFS(World(lfs, rfs)), TargetDir \o sync_paths[j])
                      = TreeAt(TargetFS(LastCall.pre), TargetDir \o sync_paths[j])
        /\ Tail(todo) = <<>>

---------------------------------------------------------------------------
(* Claims about diff_trees, checked under SpecDiff *)

Diffed == pc = "diffed"
\* the records of the result that are exactly d
Same(d) == {i \in DOMAIN diffs : diffs[i] = d}
\* the records of the result that name path in a label or in a header
Naming(path) ==
    {i \in DOMAIN diffs : \E k \in DOMAIN diffs[i] :
        \/ diffs[i][k] \in Range(LocalOnly(path)) \cup Range(RemoteOnly(path))
        \/ diffs[i][k] = [tag |-> "---", text |-> <<"remote">> \o path]
        \/ diffs[i][k] = [tag |-> "+++", text |-> <<"local">> \o path]}

\* C9: for every path in exactly one of the two snapshots, whatever its content,
\* the result holds exactly one record naming the path, the "local only" label
\* when the local snapshot has it and the "remote only" label when the remote
\* one has it.
C9_OneSidedRecord ==
    Diffed =>
        /\ \A path \in DOMAIN local_files \ DOMAIN remote_files :
              Cardinality(Naming(path)) = 1 /\ Naming(path) = Same(LocalOnly(path))
        /\ \A path \in DOMAIN remote_files \ DOMAIN local_files :
              Cardinality(Naming(path)) = 1 /\ Naming(path) = Same(RemoteOnly(path))

\* the paths both snapshots hold with different contents
Changed == {path \in DOMAIN local_files \cap DOMAIN remote_files :
               local_files[path] # remote_files[path]}

\* C10: for every path in both snapshots with different contents the result
\* holds exactly one record naming the path, a unified diff that opens with the
\* headers from remote/<path> to local/<path> and has at least one "-" or "+"
\* line.
C10_UnifiedRecord ==
    Diffed =>
        \A path \in Changed :
            /\ Cardinality(Naming(path)) = 1
            /\ \A i \in Naming(path) :
                  /\ Len(diffs[i]) >= 4
                  /\ diffs[i][1] = [tag |-> "---", text |-> <<"remote">> \o path]
                  /\ diffs[i][2] = [tag |-> "+++", text |-> <<"local">> \o path]
                  /\ \E k \in 3..Len(diffs[i]) : diffs[i][k].tag \in {"-", "+"}

\* C10 witness: a diff was made of two contents that differ only in the end of
\* their last line
C10_Witness ==
    /\ Diffed
    /\ \E path \in Changed :
          /\ splitlines_bare(local_files[path]) = splitlines_bare(remote_files[path])
          /\ Naming(path) # {}

\* C11: a snapshot diffed against itself, whatever its paths and contents (the
\* empty content and the binary sentinel included), gives the empty sequence.
C11_DiffSelfEmpty ==
    (Diffed /\ local_files = remote_files) => diffs = <<>>

\* C11 witness: a snapshot holding an empty content and the binary sentinel was
\* diffed against itself
C11_Witness ==
    /\ Diffed
    /\ local_files = remote_files
    /\ \E x, y \in DOMAIN local_files : local_files[x] = <<>> /\ local_files[y] = Binary

\* the path record i of the result describes: its first line is the label or the
\* header of the "from" file
PathOf(i) ==
    IF diffs[i][1].tag = "---" THEN Tail(diffs[i][1].text)
    ELSE SubSeq(diffs[i][1].text, 1, Len(diffs[i][1].text) - 1)

\* C12: the records come in ascending order of the strings of the paths they
\* describe, and the result is the same in whatever order the keys of the two
\* mappings are met.
C12_AscendingAnyOrder ==
    Diffed =>
        /\ \A i, j \in DOMAIN diffs :
              i < j => StrLess(PathString(PathOf(i)), PathString(PathOf(j)))
        /\ \A keys \in Enumerations(DOMAIN local_files \cup DOMAIN remote_files) :
              diffs = diff_trees(local_files, remote_files, keys)

\* C12 witness: a diff gave a record for each of two paths
C12_Witness ==
    /\ Diffed
    /\ Len(diffs) = 2
    /\ PathOf(1) # PathOf(2)

---------------------------------------------------------------------------
(* Claims about the reads of the adapters, checked under SpecRead *)

\* the last call was op
Asked(op) == hist # <<>> /\ LastCall.op = op

\* the target could be reached when the call was made: always for the local
\* adapter, a container was running for docker, the host answered for ssh
Reached(call) ==
    IF adapter = "local" THEN TRUE
    ELSE IF adapter = "docker" THEN call.ids # <<>>
    ELSE call.up

\* p leads to a file of fs that can be read as text
TextFile(fs, p) ==
    /\ is_file(fs, p)
    /\ Readable(fs[realpath(fs, p)])
    /\ ~Undecodable(fs[realpath(fs, p)].c)

\* C14: read_file on a target that can be reached returns the content of a
\* readable text file, and None without raising for a path that is missing, a
\* directory, or a file that cannot be read or decoded.
C14_ReadFileContentOrNone ==
    (Asked("read_file") /\ Reached(LastCall)) =>
        /\ ~LastCall.err
        /\ LastCall.ret =
               IF TextFile(TargetFS(LastCall.pre), LastCall.arg)
               THEN TargetFS(LastCall.pre)[realpath(TargetFS(LastCall.pre),
                                                    LastCall.arg)].c
               ELSE None

\* the regular files below p, as paths relative to p
RegularBelow(fs, p) ==
    IF is_dir(fs, p)
    THEN {x \in DOMAIN TreeAt(fs, realpath(fs, p)) \ {<<>>} :
              fs[realpath(fs, p) \o x].k = "file"}
    ELSE {}

\* C15: list_files on a target that can be reached returns the regular files
\* below the path, relative to it, in ascending order of their strings, and
\* every adapter variant returns that same sequence for the tree.
C15_ListFilesSortedSame ==
    (Asked("list_files") /\ Reached(LastCall)) =>
        /\ ~LastCall.err
        /\ LastCall.ret = Ascending(RegularBelow(TargetFS(LastCall.pre), LastCall.arg))
        /\ \A ad \in Adapters :
              list_files(Env(ad, TargetFS(LastCall.pre), TRUE, << <<"c1">> >>, None),
                         LastCall.arg) = Returned(LastCall.ret)

\* C16: list_files returns the empty sequence and raises nothing when the path
\* is missing from the target and when the target cannot be reached.
C16_ListFilesEmptyNoRaise ==
    (/\ Asked("list_files")
     /\ ~Reached(LastCall) \/ ~lexists(TargetFS(LastCall.pre), LastCall.arg)) =>
        /\ ~LastCall.err
        /\ LastCall.ret = <<>>

\* the exit code of the commands the model runs
ExitCode(cmd) == IF cmd.name = "true" THEN 0 ELSE 1

\* C18: run raises exactly when the target cannot be reached, and otherwise
\* returns the exit code of the command.
C18_RunRaisesIffUnreachable ==
    Asked("run") =>
        /\ LastCall.err <=> ~Reached(LastCall)
        /\ ~LastCall.err => LastCall.ret = ExitCode(LastCall.arg)

\* the keys of the regular files at and below base/sp, for the syncPaths sps,
\* whose content cannot be decoded or read
SentinelDue(fs, base, sps) ==
    UNION { IF exists(fs, base \o sp)
            THEN {sp \o x : x \in {y \in DOMAIN TreeAt(fs, realpath(fs, base \o sp)) :
                      /\ fs[realpath(fs, base \o sp) \o y].k = "file"
                      /\ \/ ~Readable(fs[realpath(fs, base \o sp) \o y])
                         \/ Undecodable(fs[realpath(fs, base \o sp) \o y].c)}}
            ELSE {} : sp \in Range(sps) }

\* every key of due is in the snapshot with the binary sentinel
HasSentinels(files, due) ==
    \A key \in due : key \in DOMAIN files /\ files[key] = Binary

\* C19: a collection, local or through an adapter whose target can be reached,
\* raises nothing and records every file that cannot be decoded or read under
\* its relative path with the binary sentinel.
C19_UnreadableIsSentinel ==
    /\ Asked("collect_files") =>
           HasSentinels(local_files, SentinelDue(lfs, SourceDir, sync_paths))
    /\ (Asked("collect_remote") /\ Reached(LastCall)) =>
           /\ ~LastCall.err
           /\ HasSentinels(remote_files,
                           SentinelDue(TargetFS(LastCall.pre), TargetDir, sync_paths))

\* C20: is_available of the docker adapter answers TRUE exactly when a container
\* of the image was running when it was asked.
C20_AvailableIffRunning ==
    (Asked("is_available") /\ adapter = "docker") =>
        (LastCall.ret <=> LastCall.ids # <<>>)

---------------------------------------------------------------------------
(* Further claims about diff_trees, checked under SpecDiff *)

\* the paths whose presence or content differs between the two snapshots
Differing ==
    {path \in DOMAIN local_files \cup DOMAIN remote_files :
        \/ path \notin DOMAIN local_files
        \/ path \notin DOMAIN remote_files
        \/ local_files[path] # remote_files[path]}

\* C24: the result is empty exactly when the two snapshots are equal as
\* mappings, and it holds as many records as there are paths whose presence or
\* content differs.
C24_EmptyIffEqual ==
    Diffed =>
        /\ diffs = <<>> <=> Differing = {}
        /\ Len(diffs) = Cardinality(Differing)

---------------------------------------------------------------------------
(* Further claims about the reads of the adapters, checked under SpecRead *)

\* the target as the instance met it at the last call (the cache has not
\* changed since the call ended)
ThenEnv == Env(adapter, TargetFS(LastCall.pre), LastCall.up, LastCall.ids,
               _container_id)

\* read_file gives content for path p
HasContent(e, p) == ~read_file(e, p).raised /\ read_file(e, p).ret # None

\* the keys the collection owes for syncPath sp: sp/rel for every listed rel
\* that read_file gives content for, and sp when sp itself reads as a file
KeysOwed(e, target, sp) ==
    {sp \o rel : rel \in {x \in Range(list_files(e, target \o sp).ret) :
                              HasContent(e, target \o sp \o x)}}
    \cup (IF HasContent(e, target \o sp) THEN {sp} ELSE {})

\* C22: a remote collection that returned holds, for each syncPath, the key
\* syncPath/rel of every listed file read_file gave content for and the key
\* syncPath when the syncPath itself read as a file, each with the content
\* read_file gives for it, and nothing else.
C22_RemoteCollection ==
    (Asked("collect_remote") /\ ~LastCall.err) =>
        /\ DOMAIN remote_files =
               UNION {KeysOwed(ThenEnv, TargetDir, sp) : sp \in Range(sync_paths)}
        /\ \A key \in DOMAIN remote_files :
               remote_files[key] = read_file(ThenEnv, TargetDir \o key).ret

\* a collection that met a syncPath already recorded from the listing of an
\* earlier one, and recorded a syncPath read as a single file
C22_Witness ==
    /\ Asked("collect_remote")
    /\ ~LastCall.err
    /\ \E i, j \in DOMAIN sync_paths :
          /\ i < j
          /\ sync_paths[j] \in KeysOwed(ThenEnv, TargetDir, sync_paths[i])
          /\ HasContent(ThenEnv, TargetDir \o sync_paths[j])
          /\ sync_paths[j] \in DOMAIN remote_files

\* one step of the instance's cache: the cached id changes only from None to an
\* id, or back to None with a new instance, which starts with nothing cached
CacheStep ==
    /\ _container_id' # _container_id => (_container_id = None \/ hist' = <<>>)
    /\ hist' = <<>> => _container_id' = None

\* C21 as stated: the cache moves only from unresolved to resolved, per
\* instance, and one instance runs the container listing at most once.
C21_LookupAtMostOnce == [][CacheStep /\ lookups' <= 1]_vars

\* C21, amended: the cache moves only from unresolved to resolved, per instance,
\* and the container listing runs only at an access made while nothing is
\* cached, so never again once an id is resolved.
C21_LookupOnlyUnresolved ==
    [][CacheStep /\ (lookups' > lookups => _container_id = None)]_vars

\* an instance that ran the listing twice, resolved an id at the second, and
\* answered a later call from the cache with no container running
C21_Witness ==
    /\ adapter = "docker"
    /\ lookups = 2
    /\ Asked("is_available")
    /\ LastCall.ret
    /\ LastCall.ids = <<>>

---------------------------------------------------------------------------
(* Further claims about the install flow, checked under SpecInstall *)

\* the call of prepare_staging the last Clean or Deploy of the flow follows
StagedFor ==
    IF LastCall.op = "clean" THEN Len(hist) - 1 ELSE Len(hist) - 2

\* the target directory as the flow found it and as it is now
TargetAtProbe == TreeAt(TargetFS(hist[1].pre), TargetDir)
TargetNow == TreeAt(TargetFS(World(lfs, rfs)), TargetDir)

\* C23: in the install flow Clean and Deploy are called only after the probe
\* answered true and Stage returned with at least one syncPath staged, and never
\* under dry-run; Deploy follows a Clean that returned, both with the targetDir
\* and the syncPaths of the target in hand; when the adapter is unavailable or the
\* run is a dry run the target directory stays as it was.
C23_CleanDeployGuarded ==
    /\ (hist # <<>> /\ LastCall.op \in {"clean", "deploy"}) =>
          /\ hist[1].op = "probe" /\ hist[1].ret /\ ~dry_run
          /\ StagedFor > 1
          /\ hist[StagedFor].op = "stage" /\ ~hist[StagedFor].err
          /\ \E k \in DOMAIN sync_paths :
                 exists(hist[StagedFor + 1].pre.l,
                        hist[StagedFor].ret \o sync_paths[k])
          /\ hist[StagedFor + 1].op = "clean"
          /\ LastCall.op = "deploy" => ~hist[StagedFor + 1].err
    /\ pc \in {"plating", "cleaned"} =>
          /\ todo # <<>>
          /\ sync_paths = Head(todo).sync_paths
          /\ staging = hist[IF pc = "plating" THEN Len(hist) ELSE Len(hist) - 1].ret
    /\ (hist # <<>> /\ (~hist[1].ret \/ dry_run)) => TargetNow = TargetAtProbe

\* C23 witness: a run that is not a dry run has ended after a Deploy that
\* returned and changed the target directory
C23_Witness ==
    /\ pc = "done" /\ ~dry_run
    /\ LastCall.op = "deploy" /\ ~LastCall.err
    /\ TargetNow # TargetAtProbe

\* install has handled a target of a run that is not a dry run: its Deploy
\* returned, or nothing was staged for it and the loop went on
TargetHandled ==
    /\ pc \in {"loop", "done"} /\ ~dry_run
    /\ hist # <<>> /\ LastCall.op \in {"stage", "deploy"} /\ ~LastCall.err

\* C26: after a successful install of a target that is not a dry run, for every
\* syncPath of the target, targetDir/syncPath is there if and only if
\* sourceRoot/syncPath exists: nothing deployed earlier for a syncPath that has
\* left the source survives, also when no syncPath exists in the source.
C26_TargetMirrorsSource ==
    TargetHandled =>
        \A k \in DOMAIN sync_paths :
            lexists(TargetFS(World(lfs, rfs)), TargetDir \o sync_paths[k])
                <=> exists(lfs, SourceDir \o sync_paths[k])

---------------------------------------------------------------------------
(* Further claims about the adapters, checked under SpecDeploy *)

\* p lies at or below target/syncPath for a syncPath of the call
InCallScope(p) ==
    \E k \in DOMAIN sync_paths : IsPrefix(TargetDir \o sync_paths[k], p)

\* C29: a Clean or a Deploy leaves every entry of the target's file system that
\* lies neither at nor below a target/syncPath of the call as it was (name, type
\* and content), and a Deploy leaves the staging area as it was.
C29_FrameOfCleanDeploy ==
    (Len(hist) > 1 /\ LastCall.op \in {"clean", "deploy"}) =>
        /\ \A p \in DOMAIN TargetFS(LastCall.pre) :
              ~InCallScope(p) =>
                  /\ p \in DOMAIN TargetFS(World(lfs, rfs))
                  /\ TargetFS(World(lfs, rfs))[p] = TargetFS(LastCall.pre)[p]
        /\ LastCall.op = "deploy" =>
              TreeAt(lfs, staging) = TreeAt(LastCall.pre.l, staging)

---------------------------------------------------------------------------
(* Further claims about staging, checked under SpecStage *)

\* the source of the call holds, below the source directory, a link that leads to
\* a directory above itself or into a loop of links
LoopsBack(fs) ==
    \E p \in DOMAIN fs :
        /\ IsPrefix(SourceDir, p) /\ fs[p].k = "link"
        /\ IsPrefix(fs[p].to, p) \/ Walk(fs, <<>>, p, SymlinkFuel) = ELoop

\* the files and directories of the staging area at or below a listed syncPath,
\* as paths below the staging directory
StagedPlain ==
    {x \in {Drop(q, Len(StagingDir)) :
                q \in {y \in Under(lfs, StagingDir) : lfs[y].k # "link"}} :
        \E k \in DOMAIN sync_paths : IsPrefix(sync_paths[k], x)}

\* x lies at or below a listed syncPath and is reached from where that syncPath
\* resolves to with at most `links` links followed
ReachedWithin(x, links) ==
    \E k \in DOMAIN sync_paths :
        /\ IsPrefix(sync_paths[k], x)
        /\ Walk(Before, <<>>, SourceDir \o sync_paths[k], SymlinkFuel) # ELoop
        /\ Walk(Before, <<>>,
                Walk(Before, <<>>, SourceDir \o sync_paths[k], SymlinkFuel)
                    \o Drop(x, Len(sync_paths[k])),
                links) # ELoop

Redundant(sps, i) ==
    \E j \in DOMAIN sps :
        \/ j < i /\ sps[j] = sps[i]
        \/ sps[j] # sps[i] /\ IsPrefix(sps[j], sps[i])

RECURSIVE Kept(_, _)
\* the entries of sps from position i on that are not redundant, in order
Kept(sps, i) ==
    IF i > Len(sps) THEN <<>>
    ELSE (IF Redundant(sps, i) THEN <<>> ELSE <<sps[i]>>) \o Kept(sps, i + 1)

\* C28: Stage on a list in which a syncPath occurs twice, or in which a syncPath
\* lies under another listed one, ends as Stage on the list without the redundant
\* entries ends: no error of its own and the same staging tree, whether the paths
\* hold plain files, directories or links.
C28_RedundantPathsIgnored ==
    (StageDone /\ Kept(sync_paths, 1) # sync_paths) =>
        [fs |-> lfs, err |-> pc = "raised"]
            = prepare_staging(Before, SourceDir, Kept(sync_paths, 1), resolve_symlinks,
                              StagingDir, order)

---------------------------------------------------------------------------
(* The claim about what staging touches, checked under SpecStageNested *)

\* C30: Stage makes and changes entries only inside the staging directory it
\* returns and leaves the source tree as it was, whatever the syncPath strings,
\* a string with a ".." component included: every entry outside the staging
\* directory is after the call what it was before, and none is added.
C30_StageWritesOnlyStaging ==
    StageDone =>
        \A p \in DOMAIN lfs \cup DOMAIN Before :
            ~IsPrefix(StagingDir, p) =>
                /\ p \in DOMAIN lfs /\ p \in DOMAIN Before
                /\ lfs[p] = Before[p]

---------------------------------------------------------------------------
(* The round-trip specification: cli.install of one target with            *)
(* resolve_symlinks set, not a dry run, then cli.diff for the same         *)
(* environment, run as a new process with nothing changed in between.      *)

SpTxt == <<"a.txt">>

\* what the source holds under syncPath a: text files (one of them empty), a
\* file that is not UTF-8, links to a file and to a directory
RoundSourceA ==
    { Absent, T1(File(Cx)), T1(Link(ExtD)),
      D1("b", File(Cy)), D2("b", File(Cy), "c", File(<<>>)),
      D1("bin", File(<<BadByte>>)), D1("lf", Link(ExtF)), D1("le", Link(ExtD)) }

\* what the source holds under syncPath a.txt
RoundSourceTxt ==
    { Absent, T1(File(Cx)), T1(Link(ExtF)), T1(File(<<"x", BadByte>>)) }

\* what the target directory holds before the install
RoundTargets ==
    { Absent, T1(Dir), D1("a.txt", File(Cz)),
      (<<>> :> Dir) @@ (<<"a">> :> Dir) @@ (<<"a", "b">> :> File(Cz)) }

RoundPathLists == { <<SpA>>, <<SpTxt>>, <<SpA, SpTxt>> }

\* the names a listing of the source yields
RoundNames == <<"a", "a.txt", "b", "bin", "c", "g", "le", "lf">>

InitRoundTrip ==
    /\ pc = "probe"
    /\ adapter \in Adapters
    /\ \E ta \in RoundSourceA, tx \in RoundSourceTxt, tt \in RoundTargets :
       \E src \in {Graft(Graft(Graft(ExtFS, SourceDir, T1(Dir)), SourceDir \o SpA, ta),
                         SourceDir \o SpTxt, tx)} :
          /\ lfs = IF adapter = "local" THEN Graft(src, TargetDir, tt) ELSE src
          /\ rfs = IF adapter = "local" THEN <<>> ELSE Graft(ExtFS, TargetDir, tt)
    /\ sync_paths = <<>>
    /\ resolve_symlinks = FALSE
    /\ order = RoundNames
    /\ staging = <<>>
    /\ hist = <<>>
    /\ local_files = NoSnapshot
    /\ remote_files = NoSnapshot
    /\ diffs = <<>>
    /\ \E sps \in RoundPathLists : todo = << Target(TRUE, SourceDir, sps, TRUE) >>
    /\ dry_run = FALSE
    /\ available = TRUE
    /\ running = IF adapter = "docker" THEN << <<"c1">> >> ELSE <<>>
    /\ _container_id = None
    /\ lookups = 0

\* cli.diff for the environment, after install returned: a new adapter
\* instance, is_available, then for the target the two collections and
\* diff_trees; an error raised by a read ends the command
DiffFlow ==
    /\ pc = "done"
    /\ \E e \in {Env(adapter, IF adapter = "local" THEN lfs ELSE rfs, available,
                     running, None)} :
          /\ _container_id' = IF adapter = "docker" THEN container_id(e) ELSE None
          /\ lookups' = IF adapter = "docker" THEN 1 ELSE 0
          /\ IF ~is_available(e)
             THEN /\ pc' = "unreached"
                  /\ hist' = Append(hist, Call("diff", World(lfs, rfs), FALSE, FALSE))
                  /\ UNCHANGED <<local_files, remote_files, diffs>>
             ELSE \E loc \in {collect_files(lfs, SourceDir, sync_paths)} :
                  \E rem \in {collect_remote(e, TargetDir, sync_paths)} :
                     /\ local_files' = loc
                     /\ hist' = Append(hist, Call("diff", World(lfs, rfs), rem.raised,
                                                  TRUE))
                     /\ IF rem.raised
                        THEN /\ pc' = "raised"
                             /\ UNCHANGED <<remote_files, diffs>>
                        ELSE /\ pc' = "diffed"
                             /\ remote_files' = rem.files
                             /\ \E keys \in Enumerations(DOMAIN loc \cup DOMAIN rem.files) :
                                    diffs' = diff_trees(loc, rem.files, keys)
    /\ UNCHANGED <<lfs, rfs, adapter, sync_paths, resolve_symlinks, order, staging,
                   todo, dry_run, available, running>>

NextRoundTrip ==
    Probe \/ StageTarget \/ InstallClean \/ InstallDeploy \/ Served \/ DiffFlow

SpecRoundTrip == InitRoundTrip /\ [][NextRoundTrip]_vars

---------------------------------------------------------------------------
(* The round-trip claim, checked under SpecRoundTrip *)

\* the install staged, cleaned and deployed the target and returned, and the
\* diff flow reached the environment
RoundTripped ==
    /\ hist # <<>>
    /\ LastCall.op = "diff"
    /\ LastCall.ret
    /\ \E i \in DOMAIN hist : hist[i].op = "deploy" /\ ~hist[i].err

\* C25: after a successful install of a target (resolve_symlinks set, not a dry
\* run: Stage, Clean, Deploy) and with nothing changed in between, the diff flow
\* for the environment ends with an empty list of differences, whatever regular
\* files, directories and links with text or other content the source holds.
C25_RoundTripNoDifference ==
    RoundTripped => ~LastCall.err /\ diffs = <<>>

====
